---------------------------- MODULE Spec2Model ----------------------------
(***************************************************************************)
(* Model of the tincan chat server (internal/server/server.go): Start and  *)
(* its accept loop, the TCP session handler handleConnection, the session  *)
(* registry `clients`, the history buffer `chatHistory` and the chat log,  *)
(* and the WebSocket handler handleWebSocketConnection.                    *)
(*                                                                         *)
(* Text is modelled as a sequence of pieces.  A piece that comes from a    *)
(* client is a single character; a literal of a format string of the       *)
(* server is one piece.  Every line terminator is the piece "\n" of its    *)
(* own, so strings.HasSuffix(s, "\n") is a test on the last piece.         *)
(*                                                                         *)
(* One goroutine runs per connection.  A step of the model is the code     *)
(* between two accesses to state that other goroutines share (the          *)
(* registry under clientsMutex, the history under chatHistoryMutex, the    *)
(* log file, a transport another goroutine may write to).  clientsMutex    *)
(* is modelled by the set rlock of goroutines that hold its read lock      *)
(* across steps; its write lock is only ever held within one step.  Go's   *)
(* RWMutex additionally keeps new readers out while a writer waits; the    *)
(* model allows every interleaving Go allows and some more.                *)
(***************************************************************************)
EXTENDS Integers, Sequences, FiniteSets, TLC

\* ------------------------------------------------------------------ bounds

\* Number of TCP connections the listener accepts in a run.
NConn == 3
\* Number of lines that Active sessions send in a run (all sessions together).
MaxMsgs == 1
\* Number of reads that fail or meet EOF in a run.
MaxErrs == 1
\* Number of lines that one session sends in a row in the run that fills
\* the history buffer.
MaxBurst == 23
\* Number of calls the application makes on the client core in a run.
MaxCalls == 3
\* Number of lines the client reads from the server in a run.
MaxLines == 2

Conns == 1..NConn

\* --------------------------------------------------------- program constants

USERNAME_MAX_LEN == 50
GROUPNAME_MAX_LEN == 50
MAX_HISTORY_LINES == 20

\* ------------------------------------------------------------------- strings

NL == "\n"
WhiteSpace == {" ", "\t", "\n", "\r"}

RECURSIVE TrimLeft(_)
TrimLeft(s) ==
    IF s # <<>> /\ Head(s) \in WhiteSpace THEN TrimLeft(Tail(s)) ELSE s

RECURSIVE TrimRight(_)
TrimRight(s) ==
    IF s # <<>> /\ s[Len(s)] \in WhiteSpace
    THEN TrimRight(SubSeq(s, 1, Len(s) - 1))
    ELSE s

\* strings.TrimSpace
TrimSpace(s) == TrimRight(TrimLeft(s))

\* strings.HasPrefix
HasPrefix(s, p) == Len(s) >= Len(p) /\ SubSeq(s, 1, Len(p)) = p

\* strings.HasSuffix(s, "\n")
HasSuffixNL(s) == s # <<>> /\ s[Len(s)] = NL

\* strings.TrimSuffix(s, "\n")
TrimSuffixNL(s) == IF HasSuffixNL(s) THEN SubSeq(s, 1, Len(s) - 1) ELSE s

\* The `if !strings.HasSuffix(message, "\n") { message += "\n" }` of the
\* senders and of the log and history writers.
EnsureNL(s) == IF HasSuffixNL(s) THEN s ELSE s \o <<NL>>

\* strings.Index(s, sep) for a one-character separator; 0 when absent.
IndexOf(s, sep) ==
    IF \E i \in 1..Len(s) : s[i] = sep
    THEN CHOOSE i \in 1..Len(s) : s[i] = sep /\ \A j \in 1..(i - 1) : s[j] # sep
    ELSE 0

\* strings.SplitN(s, sep, n) for n >= 1 and a one-character separator.
RECURSIVE SplitN(_, _, _)
SplitN(s, sep, n) ==
    LET i == IndexOf(s, sep) IN
    IF n <= 1 \/ i = 0
    THEN <<s>>
    ELSE <<SubSeq(s, 1, i - 1)>> \o SplitN(SubSeq(s, i + 1, Len(s)), sep, n - 1)

\* strings.Split(s, sep)
Split(s, sep) == SplitN(s, sep, Len(s) + 1)

\* ------------------------------------------------------------- configuration

\* A name of n characters.
LongName(n) == [i \in 1..n |-> "x"]

\* config/users.txt, one line per element (terminators removed by the Scanner).
UsersFile ==
    << <<"a">>, <<" ", "b", " ">>, <<>>, <<"c">>, LongName(USERNAME_MAX_LEN) >>

\* config/groups.txt: the group f with members a and b, and a malformed line.
GroupsFile ==
    << <<"f", ":", "a", ",", " ", "b", ",">>, <<"n", "o">> >>

RECURSIVE LoadUsersFrom(_, _)
LoadUsersFrom(lines, acc) ==
    IF lines = <<>> THEN acc
    ELSE LET username == TrimSpace(Head(lines)) IN
         LoadUsersFrom(Tail(lines),
             IF username # <<>> /\ Len(username) < USERNAME_MAX_LEN
             THEN acc \cup {username}
             ELSE acc)

\* loadAllowedUsers: the set of keys of allowedUsernames.
loadAllowedUsers == LoadUsersFrom(UsersFile, {})

RECURSIVE LoadMembers(_, _)
LoadMembers(names, acc) ==
    IF names = <<>> THEN acc
    ELSE LET m == TrimSpace(Head(names)) IN
         LoadMembers(Tail(names),
             IF m # <<>> /\ Len(m) < USERNAME_MAX_LEN
             THEN Append(acc, m)
             ELSE acc)

RECURSIVE LoadGroupsFrom(_, _)
LoadGroupsFrom(lines, acc) ==
    IF lines = <<>> THEN acc
    ELSE LET line == TrimSpace(Head(lines))
             parts == SplitN(line, ":", 2)
             groupName == TrimSpace(parts[1])
             memberStr == IF Len(parts) = 2 THEN TrimSpace(parts[2]) ELSE <<>>
             members == LoadMembers(Split(memberStr, ","), <<>>)
             keep == /\ line # <<>>
                     /\ Len(parts) = 2
                     /\ Len(groupName) < GROUPNAME_MAX_LEN
                     /\ groupName # <<>>
                     /\ memberStr # <<>>
                     /\ members # <<>>
         IN LoadGroupsFrom(Tail(lines),
                IF keep
                THEN [g \in (DOMAIN acc) \cup {groupName} |->
                         IF g = groupName THEN members ELSE acc[g]]
                ELSE acc)

\* loadGroups: the map groups, group name -> member list.
loadGroups == LoadGroupsFrom(GroupsFile, <<>>)


\* ------------------------------------------------------------ wire formats

ReqUsername == <<"REQ_USERNAME">>
BadUsernameEmpty == <<"BAD_USERNAME", NL, "Username cannot be empty.">>
BadUsernameLong == <<"BAD_USERNAME", NL, "Username too long.">>
NotAllowed == <<"NOT_ALLOWED", NL, "Username not on allowed list.">>
BadUsernameInUse == <<"BAD_USERNAME", NL, "Username already in use.">>
Welcome(u) == <<"Welcome, ">> \o u \o <<"!">>
HistoryBegin == <<"--- Recent Chat History ---">>
HistoryEnd == <<"--- End of History ---">>
JoinMsg(u) == <<"System: ">> \o u \o <<" has joined the chat.">>
LeaveMsg(u) == <<"System: ">> \o u \o <<" has left the chat.">>
InvalidDM == <<"System: Invalid DM format. Use: PRIVMSG <user> <message>">>
InvalidGM == <<"System: Invalid GM format. Use: GROUPMSG <group> <message>">>
DmToRecipient(s, t) == <<"(DM from ">> \o s \o <<"): ">> \o t
DmToSender(r, t) == <<"(DM to ">> \o r \o <<"): ">> \o t
DmLog(s, r, t) == <<"DM from ">> \o s \o <<" to ">> \o r \o <<": ">> \o t
UserNotFoundAsGroup(r) == <<"System: Group '#">> \o r \o <<"' not found.">>
UserNotFound(r) == <<"System: User '">> \o r \o <<"' not found or is offline.">>
GmToSend(g, s, t) == <<"(#">> \o g \o <<" from ">> \o s \o <<"): ">> \o t
GmConfirm(g, t) == <<"(To #">> \o g \o <<"): ">> \o t
GmLog(g, s, t) == <<"GROUPMSG to #">> \o g \o <<" from ">> \o s \o <<": ">> \o t
GroupNotFoundAsUser(g) ==
    <<"System: User '">> \o g \o <<"' not found or is offline.">>
GroupNotFound(g) == <<"System: Group '#">> \o g \o <<"' not found.">>
GlobalMsg(s, message) == s \o <<": ">> \o message

PRIVMSG == <<"P", "R", "I", "V", "M", "S", "G">>
GROUPMSG == <<"G", "R", "O", "U", "P", "M", "S", "G">>

\* The if / else if / else of the message loop on fullMessageCmd.
Classify(line) ==
    LET fullMessageCmd == TrimSpace(line) IN
    IF HasPrefix(fullMessageCmd, PRIVMSG \o <<" ">>) THEN "privmsg"
    ELSE IF HasPrefix(fullMessageCmd, GROUPMSG \o <<" ">>) THEN "groupmsg"
    ELSE "global"

\* parts := strings.SplitN(fullMessageCmd, " ", 3)
CmdParts(line) == SplitN(TrimSpace(line), " ", 3)

\* len(parts) < 3 || parts[1] == "" || parts[2] == ""   (Go indexes from 0)
Malformed(parts) == Len(parts) < 3 \/ parts[2] = <<>> \/ parts[3] = <<>>

\* -------------------------------------------------------------------- state

VARIABLES
    allowedUsernames, \* keys of the map allowedUsernames
    groups,           \* the map groups: name -> member list
    registered,       \* keys of the map clients (one key per connection)
    username,         \* ClientInfo.username of each connection's client
    active,           \* ClientInfo.active
    connOpen,         \* the server's end of the connection is not yet closed
    out,              \* the writes that reached each connection, in order
    chatHistory,      \* the history buffer
    chatLog,          \* the lines of chat_log.txt
    rlock,            \* goroutines holding clientsMutex.RLock across steps
    pc,               \* where each connection's goroutine stands
    ctx,              \* which event the goroutine is logging and delivering
    inLine,           \* the line its last read returned
    name,             \* its local variable username
    arg,              \* recipientUsername or groupNameReq
    text,             \* dmText, gmText or message
    rcpt,             \* recipientClient
    midx,             \* position in group.members
    todo,             \* clients the broadcast loop has yet to visit
    nmsgs,            \* lines read from Active sessions so far
    nerrs,            \* reads and accepts that failed so far
    main,             \* where the goroutine of Start stands
    writing,          \* goroutines inside sendToClient, by the client written to
    hlock,            \* the connection whose goroutine holds chatHistoryMutex
    hidx,             \* position in chatHistory of the replay loop
    cc,               \* the fields of a ClientCore and the state of its transport
    cl                \* the goroutines that use that ClientCore

vars == <<allowedUsernames, groups, registered, username, active, connOpen,
          out, chatHistory, chatLog, rlock, pc, ctx, inLine, name, arg, text,
          rcpt, midx, todo, nmsgs, nerrs, main, writing, hlock, hidx,
          cc, cl>>

config == <<allowedUsernames, groups>>
histLock == <<hlock, hidx>>
client == <<cc, cl>>
locals == <<ctx, inLine, name, arg, text, rcpt, midx, todo>>
counters == <<nmsgs, nerrs>>

NoConn == 0

\* The goroutines of a client: the caller of the API, the reader that
\* Connect starts, and one more that calls Disconnect (`go cc.Disconnect()`).
Goroutines == {"ui", "reader", "aux"}

\* NewClientCore: not connected, the shutdown channel open, the mutex free.
\* onStatusChange is the callback it was given: one that returns at once,
\* or one that asks the core IsLoggedIn() before it returns.
NewClientCore(onStatusChange) ==
    [ isConnected |-> FALSE, loginPhaseComplete |-> FALSE, username |-> <<>>,
      shutdownClosed |-> FALSE, connClosed |-> FALSE, mu |-> "free", wg |-> 0,
      onStatusChange |-> onStatusChange ]

\* No call in progress, no reader yet, nothing sent or reported.
NoGoroutines ==
    [ pc |-> [g \in Goroutines |-> IF g = "ui" THEN "idle" ELSE "none"],
      op |-> "none", ret |-> "none", msg |-> <<>>, line |-> <<>>,
      sent |-> <<>>, status |-> "", closes |-> 0, ncalls |-> 0, nlines |-> 0 ]

Init ==
    /\ allowedUsernames = loadAllowedUsers
    /\ groups = loadGroups
    /\ registered = {}
    /\ username = [c \in Conns |-> <<>>]
    /\ active = [c \in Conns |-> FALSE]
    /\ connOpen = [c \in Conns |-> FALSE]
    /\ out = [c \in Conns |-> <<>>]
    /\ chatHistory = <<>>
    /\ chatLog = <<>>
    /\ rlock = {}
    /\ pc = [c \in Conns |-> "new"]
    /\ ctx = [c \in Conns |-> "none"]
    /\ inLine = [c \in Conns |-> <<>>]
    /\ name = [c \in Conns |-> <<>>]
    /\ arg = [c \in Conns |-> <<>>]
    /\ text = [c \in Conns |-> <<>>]
    /\ rcpt = [c \in Conns |-> NoConn]
    /\ midx = [c \in Conns |-> 0]
    /\ todo = [c \in Conns |-> {}]
    /\ nmsgs = 0
    /\ nerrs = 0
    /\ main = "accept"
    /\ writing = [c \in Conns |-> {}]
    /\ hlock = NoConn
    /\ hidx = [c \in Conns |-> 0]
    /\ cc = NewClientCore("nop")
    /\ cl = NoGoroutines

\* ----------------------------------------------------------------- helpers

\* sendToClient: one write and flush of message on client c's transport; on a
\* closed connection the write fails and is only reported to the operator.
sendToClient(o, c, message) ==
    IF connOpen[c] THEN [o EXCEPT ![c] = Append(@, EnsureNL(message))] ELSE o

Timestamp == <<"[", "<timestamp>", "] ">>

\* logChatMessage
logChatMessage(log, message) == Append(log, Timestamp \o EnsureNL(message))

\* addMessageToHistory cutting the buffer at the wrong end.
addMessageToHistoryKeepOldest(hist, message) ==
    LET h == Append(hist, EnsureNL(message)) IN
    IF Len(h) > MAX_HISTORY_LINES THEN SubSeq(h, 1, MAX_HISTORY_LINES) ELSE h

\* addMessageToHistory
addMessageToHistory(hist, message) ==
    LET h == Append(hist, EnsureNL(message)) IN
    IF Len(h) > MAX_HISTORY_LINES
    THEN SubSeq(h, Len(h) - MAX_HISTORY_LINES + 1, Len(h))
    ELSE h

\* isUsernameAllowed answering for a map that holds every name.
isUsernameAllowedAny(u) == u \in allowedUsernames \cup {u}

\* isUsernameAllowed
isUsernameAllowed(u) == u \in allowedUsernames

\* alreadyExists with the test on the connection inverted (== for !=).
alreadyExistsSameConn(c, u) ==
    \E r \in registered : active[r] /\ username[r] = u /\ r = c

\* The loop over clients that sets alreadyExists.
alreadyExists(c, u) ==
    \E r \in registered : active[r] /\ username[r] = u /\ r # c

\* The checks of the handshake with the allow-list asked first.
VerdictAllowListFirst(c, u) ==
    IF ~isUsernameAllowed(u) THEN "not_allowed"
    ELSE IF u = <<>> THEN "empty"
    ELSE IF Len(u) >= USERNAME_MAX_LEN THEN "long"
    ELSE IF alreadyExists(c, u) THEN "in_use"
    ELSE "ok"

\* The checks of the handshake on the trimmed username, in the code's order.
Verdict(c, u) ==
    IF u = <<>> THEN "empty"
    ELSE IF Len(u) >= USERNAME_MAX_LEN THEN "long"
    ELSE IF ~isUsernameAllowed(u) THEN "not_allowed"
    ELSE IF alreadyExists(c, u) THEN "in_use"
    ELSE "ok"

Rejection(v) ==
    CASE v = "empty" -> BadUsernameEmpty
      [] v = "long" -> BadUsernameLong
      [] v = "not_allowed" -> NotAllowed
      [] v = "in_use" -> BadUsernameInUse

\* The search for a client without the comparison of the username.
ActiveAnyName(u) == {r \in registered : active[r]}

\* The active clients named u, as the loops over clients find them.
ActiveNamed(u) == {r \in registered : active[r] /\ username[r] = u}

\* usernameForLog of the deferred cleanup.
usernameForLog(c) ==
    IF username[c] = <<>> THEN <<"[unauthenticated]">> ELSE username[c]

\* The log entry of a DM or group message in the form that is delivered.
LogTextAsDelivered(c) ==
    CASE ctx[c] = "join" -> JoinMsg(name[c])
      [] ctx[c] = "leave" -> LeaveMsg(usernameForLog(c))
      [] ctx[c] = "dm" -> DmToRecipient(username[c], text[c])
      [] ctx[c] = "gm" -> GmToSend(arg[c], username[c], text[c])
      [] ctx[c] = "global" -> TrimSuffixNL(GlobalMsg(username[c], text[c]))

\* What the goroutine of c logs and stores for the event it is handling.
LogText(c) ==
    CASE ctx[c] = "join" -> JoinMsg(name[c])
      [] ctx[c] = "leave" -> LeaveMsg(usernameForLog(c))
      [] ctx[c] = "dm" -> DmLog(username[c], arg[c], text[c])
      [] ctx[c] = "gm" -> GmLog(arg[c], username[c], text[c])
      [] ctx[c] = "global" -> TrimSuffixNL(GlobalMsg(username[c], text[c]))

\* What it broadcasts, and the connection the broadcast leaves out.
BroadcastText(c) ==
    CASE ctx[c] = "join" -> JoinMsg(name[c])
      [] ctx[c] = "leave" -> LeaveMsg(usernameForLog(c))
      [] ctx[c] = "global" -> GlobalMsg(username[c], text[c])

\* The join broadcast called with nil, as the other broadcasts are.
excludeConnNil(c) == NoConn

excludeConn(c) == IF ctx[c] = "join" THEN c ELSE NoConn

\* broadcastMessage always leaving the caller's own connection out.
BroadcastTargetsNotSelf(c) ==
    {r \in registered : active[r] /\ r # c}

\* The clients broadcastMessage sends to.
BroadcastTargets(c) ==
    {r \in registered : active[r] /\ r # excludeConn(c)}


\* ------------------------------------------------------- the handshake

\* The accept loop calling handleConnection(conn) itself, without `go`: the
\* next Accept waits for the handlers before it to return.
AcceptInline(c) ==
    /\ main = "accept"
    /\ pc[c] = "new"
    /\ \A d \in Conns : d < c => pc[d] = "done"
    /\ rlock = {}
    /\ registered' = registered \cup {c}
    /\ connOpen' = [connOpen EXCEPT ![c] = TRUE]
    /\ out' = [out EXCEPT ![c] = Append(@, EnsureNL(ReqUsername))]
    /\ pc' = [pc EXCEPT ![c] = "await"]
    /\ UNCHANGED <<config, client, histLock, main, writing, username, active, chatHistory,
                   chatLog, rlock, locals, counters>>

\* listener.Accept() returns connection c and `go handleConnection(conn)`
\* starts its goroutine: the client is put into the registry, inactive, and
\* asked for its username.  Connections are numbered in the order in which
\* they are registered.
Accept(c) ==
    /\ main = "accept"
    /\ pc[c] = "new"
    /\ \A d \in Conns : d < c => pc[d] # "new"
    /\ rlock = {}
    /\ registered' = registered \cup {c}
    /\ connOpen' = [connOpen EXCEPT ![c] = TRUE]
    /\ out' = [out EXCEPT ![c] = Append(@, EnsureNL(ReqUsername))]
    /\ pc' = [pc EXCEPT ![c] = "await"]
    /\ UNCHANGED <<config, client, histLock, main, writing, username, active, chatHistory, chatLog, rlock,
                   locals, counters>>

\* The read of the username returns line l: the checks, and either the
\* rejection (reply, return, conn.Close() of the deferred cleanup) or the way
\* on to the update of the client.
ReadUsername(c, l) ==
    /\ pc[c] = "await"
    /\ LET u == TrimSpace(l)
           v == Verdict(c, u)
       IN /\ inLine' = [inLine EXCEPT ![c] = l]
          /\ IF v = "ok"
             THEN /\ name' = [name EXCEPT ![c] = u]
                  /\ pc' = [pc EXCEPT ![c] = "activate"]
                  /\ UNCHANGED <<out, connOpen>>
             ELSE /\ out' = sendToClient(out, c, Rejection(v))
                  /\ connOpen' = [connOpen EXCEPT ![c] = FALSE]
                  /\ pc' = [pc EXCEPT ![c] = "closing"]
                  /\ UNCHANGED name
    /\ UNCHANGED <<config, client, histLock, main, writing, registered, username, active, chatHistory, chatLog,
                   rlock, ctx, arg, text, rcpt, midx, todo, counters>>

\* The return after a failed read with a deferred function that does not
\* close the connection.
ReadErrorLeavesOpen(c) ==
    /\ pc[c] \in {"await", "loop"}
    /\ nerrs < MaxErrs
    /\ nerrs' = nerrs + 1
    /\ pc' = [pc EXCEPT ![c] = "closing"]
    /\ UNCHANGED <<config, client, histLock, main, writing, registered, username, active,
                   connOpen, out, chatHistory, chatLog, rlock, locals, nmsgs>>

\* A read (of the username, or in the message loop) fails or meets EOF: the
\* handler returns and its deferred cleanup closes the connection.
ReadError(c) ==
    /\ pc[c] \in {"await", "loop"}
    /\ nerrs < MaxErrs
    /\ nerrs' = nerrs + 1
    /\ connOpen' = [connOpen EXCEPT ![c] = FALSE]
    /\ pc' = [pc EXCEPT ![c] = "closing"]
    /\ UNCHANGED <<config, client, histLock, main, writing, registered, username, active, out, chatHistory,
                   chatLog, rlock, locals, nmsgs>>

\* client.username = username; client.active = true, under clientsMutex.Lock.
Activate(c) ==
    /\ pc[c] = "activate"
    /\ rlock = {}
    /\ username' = [username EXCEPT ![c] = name[c]]
    /\ active' = [active EXCEPT ![c] = TRUE]
    /\ pc' = [pc EXCEPT ![c] = "welcome"]
    /\ UNCHANGED <<config, client, histLock, main, writing, registered, connOpen, out, chatHistory, chatLog,
                   rlock, locals, counters>>

SendWelcome(c) ==
    /\ pc[c] = "welcome"
    /\ out' = sendToClient(out, c, Welcome(name[c]))
    /\ pc' = [pc EXCEPT ![c] = "replay"]
    /\ UNCHANGED <<config, client, histLock, main, writing, registered, username, active, connOpen,
                   chatHistory, chatLog, rlock, locals, counters>>

\* The replay without the test len(chatHistory) > 0.
ReplayLinesAlways(hist) == <<HistoryBegin>> \o hist \o <<HistoryEnd>>

\* The writes of the history replay, in order.
ReplayLines(hist) ==
    IF Len(hist) > 0 THEN <<HistoryBegin>> \o hist \o <<HistoryEnd>> ELSE <<>>

RECURSIVE SendAll(_, _, _)
SendAll(o, c, msgs) ==
    IF msgs = <<>> THEN o
    ELSE SendAll(sendToClient(o, c, Head(msgs)), c, Tail(msgs))

\* The replay of the history to the joining client, under chatHistoryMutex.
ReplayHistory(c) ==
    /\ pc[c] = "replay"
    /\ hlock = NoConn
    /\ out' = SendAll(out, c, ReplayLines(chatHistory))
    /\ ctx' = [ctx EXCEPT ![c] = "join"]
    /\ pc' = [pc EXCEPT ![c] = "log"]
    /\ UNCHANGED <<config, client, histLock, main, writing, registered, username, active, connOpen,
                   chatHistory, chatLog, rlock, inLine, name, arg, text, rcpt,
                   midx, todo, counters>>

\* The same replay statement by statement.  chatHistoryMutex.Lock() and the
\* test of len(chatHistory): the opening marker is sent, or with an empty
\* history the mutex is released at once.
ReplayLock(c) ==
    /\ pc[c] = "replay"
    /\ hlock = NoConn
    /\ IF Len(chatHistory) > 0
       THEN /\ out' = sendToClient(out, c, HistoryBegin)
            /\ hlock' = c
            /\ hidx' = [hidx EXCEPT ![c] = 1]
            /\ pc' = [pc EXCEPT ![c] = "replay_loop"]
            /\ UNCHANGED ctx
       ELSE /\ ctx' = [ctx EXCEPT ![c] = "join"]
            /\ pc' = [pc EXCEPT ![c] = "log"]
            /\ UNCHANGED <<out, hlock, hidx>>
    /\ UNCHANGED <<config, client, main, writing, registered, username, active, connOpen,
                   chatHistory, chatLog, rlock, inLine, name, arg, text, rcpt,
                   midx, todo, counters>>

\* One iteration of the loop over chatHistory, the mutex held.
ReplayLine(c) ==
    /\ pc[c] = "replay_loop"
    /\ hidx[c] <= Len(chatHistory)
    /\ out' = sendToClient(out, c, chatHistory[hidx[c]])
    /\ hidx' = [hidx EXCEPT ![c] = @ + 1]
    /\ UNCHANGED <<config, client, main, writing, registered, username, active, connOpen,
                   chatHistory, chatLog, rlock, pc, locals, counters, hlock>>

\* The end of the replay without chatHistoryMutex.Unlock().
ReplayUnlockKeepsLock(c) ==
    /\ pc[c] = "replay_loop"
    /\ hidx[c] > Len(chatHistory)
    /\ out' = sendToClient(out, c, HistoryEnd)
    /\ hidx' = [hidx EXCEPT ![c] = 0]
    /\ ctx' = [ctx EXCEPT ![c] = "join"]
    /\ pc' = [pc EXCEPT ![c] = "log"]
    /\ UNCHANGED <<config, client, main, writing, registered, username, active, connOpen,
                   chatHistory, chatLog, rlock, inLine, name, arg, text, rcpt,
                   midx, todo, counters, hlock>>

\* The loop is through: the closing marker and chatHistoryMutex.Unlock().
ReplayUnlock(c) ==
    /\ pc[c] = "replay_loop"
    /\ hidx[c] > Len(chatHistory)
    /\ out' = sendToClient(out, c, HistoryEnd)
    /\ hlock' = NoConn
    /\ hidx' = [hidx EXCEPT ![c] = 0]
    /\ ctx' = [ctx EXCEPT ![c] = "join"]
    /\ pc' = [pc EXCEPT ![c] = "log"]
    /\ UNCHANGED <<config, client, main, writing, registered, username, active, connOpen,
                   chatHistory, chatLog, rlock, inLine, name, arg, text, rcpt,
                   midx, todo, counters>>

\* ------------------------------------------ log, history and broadcast

\* logChatMessage of the event in hand (join, leave, DM, group message).
LogChat(c) ==
    /\ pc[c] = "log"
    /\ chatLog' = logChatMessage(chatLog, LogText(c))
    /\ pc' = [pc EXCEPT ![c] = "hist"]
    /\ UNCHANGED <<config, client, histLock, main, writing, registered, username, active, connOpen, out,
                   chatHistory, rlock, locals, counters>>

\* A failed log write taken as the end of the session.
LogChatFailsEndsSession(c) ==
    /\ pc[c] = "log"
    /\ nerrs < MaxErrs
    /\ nerrs' = nerrs + 1
    /\ connOpen' = [connOpen EXCEPT ![c] = FALSE]
    /\ pc' = [pc EXCEPT ![c] = "closing"]
    /\ UNCHANGED <<config, client, histLock, main, writing, registered, username, active, out,
                   chatHistory, chatLog, rlock, locals, nmsgs>>

\* logChatMessage with no log handle, or with WriteString returning an
\* error: the operator is told (log.Printf) and the function returns; the
\* chat log gets nothing and the caller goes on.
LogChatFails(c) ==
    /\ pc[c] = "log"
    /\ nerrs < MaxErrs
    /\ nerrs' = nerrs + 1
    /\ pc' = [pc EXCEPT ![c] = "hist"]
    /\ UNCHANGED <<config, client, histLock, main, writing, registered, username, active, connOpen,
                   out, chatHistory, chatLog, rlock, locals, nmsgs>>

\* addMessageToHistory of the same event.
AddHistory(c) ==
    /\ pc[c] = "hist"
    /\ hlock = NoConn
    /\ chatHistory' = addMessageToHistory(chatHistory, LogText(c))
    /\ pc' = [pc EXCEPT ![c] =
                 IF ctx[c] \in {"join", "leave", "global"} THEN "bcast" ELSE "loop"]
    /\ UNCHANGED <<config, client, histLock, main, writing, registered, username, active, connOpen, out,
                   chatLog, rlock, locals, counters>>

\* broadcastMessage takes the read lock; the registry cannot change until it
\* is released, so the clients the loop will send to are known here.
BroadcastStart(c) ==
    /\ pc[c] = "bcast"
    /\ rlock' = rlock \cup {c}
    /\ todo' = [todo EXCEPT ![c] = BroadcastTargets(c)]
    /\ pc' = [pc EXCEPT ![c] = "bcast_loop"]
    /\ UNCHANGED <<config, client, histLock, main, writing, registered, username, active, connOpen, out,
                   chatHistory, chatLog, ctx, inLine, name, arg, text, rcpt,
                   midx, counters>>

\* The loop of broadcastMessage leaving at the first write that fails.
BroadcastSendStopsAtFailure(c, r) ==
    /\ pc[c] = "bcast_loop"
    /\ r \in todo[c]
    /\ out' = sendToClient(out, r, BroadcastText(c))
    /\ todo' = [todo EXCEPT ![c] = IF connOpen[r] THEN @ \ {r} ELSE {}]
    /\ UNCHANGED <<config, client, histLock, main, writing, registered, username, active,
                   connOpen, chatHistory, chatLog, rlock, pc, ctx, inLine,
                   name, arg, text, rcpt, midx, counters>>

\* One iteration of the loop of broadcastMessage (the map is ranged over in
\* no fixed order).
BroadcastSend(c, r) ==
    /\ pc[c] = "bcast_loop"
    /\ r \in todo[c]
    /\ out' = sendToClient(out, r, BroadcastText(c))
    /\ todo' = [todo EXCEPT ![c] = @ \ {r}]
    /\ UNCHANGED <<config, client, histLock, main, writing, registered, username, active, connOpen,
                   chatHistory, chatLog, rlock, pc, ctx, inLine, name, arg,
                   text, rcpt, midx, counters>>

\* The same iteration in the two calls sendToClient makes on the client's
\* bufio.Writer, which no lock protects (broadcastMessage holds clientsMutex
\* for reading only, so other goroutines may be in their own iteration).
\* First client.writer.WriteString(message): the goroutine is inside
\* sendToClient of r.
BroadcastWrite(c, r) ==
    /\ pc[c] = "bcast_loop"
    /\ r \in todo[c]
    /\ \A x \in Conns : c \notin writing[x]
    /\ writing' = [writing EXCEPT ![r] = @ \cup {c}]
    /\ UNCHANGED <<config, client, histLock, main, registered, username, active, connOpen, out,
                   chatHistory, chatLog, rlock, pc, locals, counters>>

\* What reaches the transport of r when two goroutines use its writer at once.
Garbled == <<"<bytes of several messages>">>

\* Then client.writer.Flush(), and the iteration is over.  With another
\* goroutine inside sendToClient of r the two race on the writer's buffer:
\* the line arrives whole, or not as a line of its own, or mixed up.
BroadcastFlush(c, r) ==
    /\ pc[c] = "bcast_loop"
    /\ c \in writing[r]
    /\ \/ out' = sendToClient(out, r, BroadcastText(c))
       \/ /\ writing[r] # {c}
          /\ out' \in {out, sendToClient(out, r, Garbled)}
    /\ todo' = [todo EXCEPT ![c] = @ \ {r}]
    /\ writing' = [writing EXCEPT ![r] = @ \ {c}]
    /\ UNCHANGED <<config, client, histLock, main, registered, username, active, connOpen,
                   chatHistory, chatLog, rlock, pc, ctx, inLine, name, arg,
                   text, rcpt, midx, counters>>

\* The loop is over: the read lock is released.  After the departure
\* broadcast the goroutine ends.
BroadcastEnd(c) ==
    /\ pc[c] = "bcast_loop"
    /\ todo[c] = {}
    /\ rlock' = rlock \ {c}
    /\ pc' = [pc EXCEPT ![c] = IF ctx[c] = "leave" THEN "done" ELSE "loop"]
    /\ UNCHANGED <<config, client, histLock, main, writing, registered, username, active, connOpen, out,
                   chatHistory, chatLog, locals, counters>>

\* ------------------------------------------------------------ the cleanup

\* The deferred function without delete(clients, conn).
CleanupKeepsEntry(c) ==
    /\ pc[c] = "closing"
    /\ rlock = {}
    /\ IF c \in registered /\ active[c]
       THEN /\ ctx' = [ctx EXCEPT ![c] = "leave"]
            /\ pc' = [pc EXCEPT ![c] = "log"]
       ELSE /\ pc' = [pc EXCEPT ![c] = "done"]
            /\ UNCHANGED ctx
    /\ UNCHANGED <<config, client, histLock, main, writing, registered, username, active,
                   connOpen, out, chatHistory, chatLog, rlock, inLine, name,
                   arg, text, rcpt, midx, todo, counters>>

\* The deferred function without the test of isActive.
CleanupAnnouncesAll(c) ==
    /\ pc[c] = "closing"
    /\ rlock = {}
    /\ registered' = registered \ {c}
    /\ ctx' = [ctx EXCEPT ![c] = "leave"]
    /\ pc' = [pc EXCEPT ![c] = "log"]
    /\ UNCHANGED <<config, client, histLock, main, writing, username, active, connOpen, out, chatHistory,
                   chatLog, rlock, inLine, name, arg, text, rcpt, midx, todo,
                   counters>>

\* The deferred function, after conn.Close(): under clientsMutex.Lock the
\* client is deleted from the registry; a client that was active is then
\* logged, stored and broadcast as having left.
Cleanup(c) ==
    /\ pc[c] = "closing"
    /\ rlock = {}
    /\ registered' = registered \ {c}
    /\ IF c \in registered /\ active[c]
       THEN /\ ctx' = [ctx EXCEPT ![c] = "leave"]
            /\ pc' = [pc EXCEPT ![c] = "log"]
       ELSE /\ pc' = [pc EXCEPT ![c] = "done"]
            /\ UNCHANGED ctx
    /\ UNCHANGED <<config, client, histLock, main, writing, username, active, connOpen, out, chatHistory,
                   chatLog, rlock, inLine, name, arg, text, rcpt, midx, todo,
                   counters>>


\* ------------------------------------------------------ the message loop

\* The PRIVMSG branch storing its not-found reply in the history, as it
\* stores what it delivers.
RecvPrivmsgStoresErrors(c, l) ==
    /\ pc[c] = "loop"
    /\ nmsgs < MaxMsgs
    /\ Classify(l) = "privmsg"
    /\ nmsgs' = nmsgs + 1
    /\ UNCHANGED nerrs
    /\ inLine' = [inLine EXCEPT ![c] = l]
    /\ LET parts == CmdParts(l) IN
       IF Malformed(parts)
       THEN /\ out' = sendToClient(out, c, InvalidDM)
            /\ UNCHANGED <<pc, ctx, arg, text, rcpt, chatHistory>>
       ELSE IF ActiveNamed(parts[2]) = {}
       THEN /\ out' = sendToClient(out, c, UserNotFound(parts[2]))
            /\ chatHistory' = addMessageToHistory(chatHistory, UserNotFound(parts[2]))
            /\ UNCHANGED <<pc, ctx, arg, text, rcpt>>
       ELSE /\ \E r \in ActiveNamed(parts[2]) : rcpt' = [rcpt EXCEPT ![c] = r]
            /\ ctx' = [ctx EXCEPT ![c] = "dm"]
            /\ arg' = [arg EXCEPT ![c] = parts[2]]
            /\ text' = [text EXCEPT ![c] = parts[3]]
            /\ pc' = [pc EXCEPT ![c] = "dm_rcpt"]
            /\ UNCHANGED <<out, chatHistory>>
    /\ UNCHANGED <<config, client, histLock, main, writing, registered, username, active, connOpen,
                   chatLog, rlock, name, midx, todo>>

\* A PRIVMSG line: the format check, then the search of the registry for an
\* active client named as the recipient (the first one the loop meets).
RecvPrivmsg(c, l) ==
    /\ pc[c] = "loop"
    /\ nmsgs < MaxMsgs
    /\ Classify(l) = "privmsg"
    /\ nmsgs' = nmsgs + 1
    /\ UNCHANGED nerrs
    /\ inLine' = [inLine EXCEPT ![c] = l]
    /\ LET parts == CmdParts(l) IN
       IF Malformed(parts)
       THEN /\ out' = sendToClient(out, c, InvalidDM)
            /\ UNCHANGED <<pc, ctx, arg, text, rcpt>>
       ELSE IF ActiveNamed(parts[2]) = {}
       THEN /\ out' = sendToClient(out, c, UserNotFound(parts[2]))
            /\ UNCHANGED <<pc, ctx, arg, text, rcpt>>
       ELSE /\ \E r \in ActiveNamed(parts[2]) : rcpt' = [rcpt EXCEPT ![c] = r]
            /\ ctx' = [ctx EXCEPT ![c] = "dm"]
            /\ arg' = [arg EXCEPT ![c] = parts[2]]
            /\ text' = [text EXCEPT ![c] = parts[3]]
            /\ pc' = [pc EXCEPT ![c] = "dm_rcpt"]
            /\ UNCHANGED out
    /\ UNCHANGED <<config, client, histLock, main, writing, registered, username, active, connOpen,
                   chatHistory, chatLog, rlock, name, midx, todo>>

\* sendToClient(recipientClient, dmToRecipient)
DMSendRecipient(c) ==
    /\ pc[c] = "dm_rcpt"
    /\ out' = sendToClient(out, rcpt[c], DmToRecipient(username[c], text[c]))
    /\ pc' = [pc EXCEPT ![c] = "dm_sender"]
    /\ UNCHANGED <<config, client, histLock, main, writing, registered, username, active, connOpen,
                   chatHistory, chatLog, rlock, locals, counters>>

\* sendToClient(client, dmToSender)
DMSendSender(c) ==
    /\ pc[c] = "dm_sender"
    /\ out' = sendToClient(out, c, DmToSender(arg[c], text[c]))
    /\ pc' = [pc EXCEPT ![c] = "log"]
    /\ UNCHANGED <<config, client, histLock, main, writing, registered, username, active, connOpen,
                   chatHistory, chatLog, rlock, locals, counters>>

\* A GROUPMSG line: the format check and the lookup of the group.
RecvGroupmsg(c, l) ==
    /\ pc[c] = "loop"
    /\ nmsgs < MaxMsgs
    /\ Classify(l) = "groupmsg"
    /\ nmsgs' = nmsgs + 1
    /\ UNCHANGED nerrs
    /\ inLine' = [inLine EXCEPT ![c] = l]
    /\ LET parts == CmdParts(l) IN
       IF Malformed(parts)
       THEN /\ out' = sendToClient(out, c, InvalidGM)
            /\ UNCHANGED <<pc, ctx, arg, text, midx>>
       ELSE IF parts[2] \notin DOMAIN groups
       THEN /\ out' = sendToClient(out, c, GroupNotFound(parts[2]))
            /\ UNCHANGED <<pc, ctx, arg, text, midx>>
       ELSE /\ ctx' = [ctx EXCEPT ![c] = "gm"]
            /\ arg' = [arg EXCEPT ![c] = parts[2]]
            /\ text' = [text EXCEPT ![c] = parts[3]]
            /\ midx' = [midx EXCEPT ![c] = 1]
            /\ pc' = [pc EXCEPT ![c] = "gm_members"]
            /\ UNCHANGED out
    /\ UNCHANGED <<config, client, histLock, main, writing, registered, username, active, connOpen,
                   chatHistory, chatLog, rlock, name, rcpt, todo>>

\* One iteration of the loop over group.members, under the read lock (taken
\* before the first member, released after the last): the first active
\* client with the member's name, if there is one, is sent the message.
GroupDeliver(c) ==
    /\ pc[c] = "gm_members"
    /\ LET members == groups[arg[c]]
           memberUsername == members[midx[c]]
           last == midx[c] = Len(members)
       IN /\ \/ /\ ActiveNamed(memberUsername) = {}
                /\ UNCHANGED out
             \/ \E r \in ActiveNamed(memberUsername) :
                  out' = sendToClient(out, r,
                             GmToSend(arg[c], username[c], text[c]))
          /\ midx' = [midx EXCEPT ![c] = @ + 1]
          /\ rlock' = IF last THEN rlock \ {c} ELSE rlock \cup {c}
          /\ pc' = [pc EXCEPT ![c] = IF last THEN "gm_confirm" ELSE "gm_members"]
    /\ UNCHANGED <<config, client, histLock, main, writing, registered, username, active, connOpen,
                   chatHistory, chatLog, ctx, inLine, name, arg, text, rcpt,
                   todo, counters>>

\* sendToClient(client, confirmationToSender)
GroupConfirm(c) ==
    /\ pc[c] = "gm_confirm"
    /\ out' = sendToClient(out, c, GmConfirm(arg[c], text[c]))
    /\ pc' = [pc EXCEPT ![c] = "log"]
    /\ UNCHANGED <<config, client, histLock, main, writing, registered, username, active, connOpen,
                   chatHistory, chatLog, rlock, locals, counters>>

\* Any other line is a global message (max: the number of lines of the run).
RecvGlobalUpTo(c, l, max) ==
    /\ pc[c] = "loop"
    /\ nmsgs < max
    /\ Classify(l) = "global"
    /\ nmsgs' = nmsgs + 1
    /\ UNCHANGED nerrs
    /\ inLine' = [inLine EXCEPT ![c] = l]
    /\ ctx' = [ctx EXCEPT ![c] = "global"]
    /\ text' = [text EXCEPT ![c] = l]
    /\ pc' = [pc EXCEPT ![c] = "log"]
    /\ UNCHANGED <<config, client, histLock, main, writing, registered, username, active, connOpen, out,
                   chatHistory, chatLog, rlock, name, arg, rcpt, midx, todo>>

RecvGlobal(c, l) == RecvGlobalUpTo(c, l, MaxMsgs)

\* ------------------------------------------------------------------ Start

\* The goroutine of Start stands at "users" (before loadAllowedUsers),
\* "groups" (before loadGroups), "openlog" (before os.OpenFile), "listen"
\* (before net.Listen), "accept" (in listener.Accept()), at one of
\* AcceptErrors (Accept has returned that error), "sleep" (in time.Sleep),
\* "returned" (the loop was left and Start returned) or "fatal" (log.Fatalf
\* has ended the process).

AcceptErrors == {"err_temporary", "err_closed", "err_other"}

\* The places of Start at which the process runs and the listener is open.
Listening == {"accept", "sleep"} \cup AcceptErrors

\* The steps of Start leave the sessions alone.
sessions == <<registered, username, active, connOpen, out, chatHistory,
              chatLog, rlock, pc, locals, nmsgs, writing, histLock,
              client>>

\* loadAllowedUsers: a file that cannot be opened is reported and the map
\* stays empty.
StartLoadUsers ==
    /\ main = "users"
    /\ \E opened \in BOOLEAN :
           allowedUsernames' = IF opened THEN loadAllowedUsers ELSE {}
    /\ main' = "groups"
    /\ UNCHANGED <<groups, sessions, nerrs>>

\* loadGroups, in the same way.
StartLoadGroups ==
    /\ main = "groups"
    /\ \E opened \in BOOLEAN : groups' = IF opened THEN loadGroups ELSE <<>>
    /\ main' = "openlog"
    /\ UNCHANGED <<allowedUsernames, sessions, nerrs>>

\* os.OpenFile(CHAT_LOG_FILE, ...): on an error log.Fatalf ends the process.
StartOpenLog ==
    /\ main = "openlog"
    /\ \E opened \in BOOLEAN : main' = IF opened THEN "listen" ELSE "fatal"
    /\ UNCHANGED <<config, sessions, nerrs>>

\* net.Listen("tcp", PORT): on an error log.Fatalf ends the process.
StartListen ==
    /\ main = "listen"
    /\ \E bound \in BOOLEAN : main' = IF bound THEN "accept" ELSE "fatal"
    /\ UNCHANGED <<config, sessions, nerrs>>

\* listener.Accept() returns an error.
AcceptFails ==
    /\ main = "accept"
    /\ nerrs < MaxErrs
    /\ nerrs' = nerrs + 1
    /\ main' \in AcceptErrors
    /\ UNCHANGED <<config, sessions>>

\* The accept loop leaving on every error that is not its last test's.
AcceptErrorHandledBreaks ==
    /\ main \in AcceptErrors
    /\ main' = IF main = "err_other" THEN "accept" ELSE "returned"
    /\ UNCHANGED <<config, sessions, nerrs>>

\* The tests of the accept loop on the error: a temporary one is followed by
\* a sleep, "use of closed network connection" by break, any other by
\* continue.
AcceptErrorHandled ==
    /\ main \in AcceptErrors
    /\ main' = CASE main = "err_temporary" -> "sleep"
                 [] main = "err_closed" -> "returned"
                 [] main = "err_other" -> "accept"
    /\ UNCHANGED <<config, sessions, nerrs>>

\* time.Sleep(time.Second) is over: continue.
AcceptRetry ==
    /\ main = "sleep"
    /\ main' = "accept"
    /\ UNCHANGED <<config, sessions, nerrs>>

\* ------------------------------------------------- the WebSocket handler

\* handleWebSocketConnection keeps its ClientInfo to itself: the client is
\* put neither into clients nor into wsClients (no statement adds to either
\* map), so a WebSocket connection is never in `registered`; username and
\* active are the fields of its local ClientInfo.  Its goroutine stands at
\* the places whose names begin with ws.

WsDmStub == <<"System: DM processing not fully implemented for WS yet.", NL>>
WsGmStub == <<"System: GroupMSG processing not fully implemented for WS yet.", NL>>

\* sendToWsClient: one text message on the connection's own WebSocket.
sendToWsClient(o, c, msg) ==
    IF connOpen[c] THEN [o EXCEPT ![c] = Append(@, EnsureNL(msg))] ELSE o

\* serveWs accepts the connection; the handler asks for the username.
WsAccept(c) ==
    /\ main = "accept"
    /\ pc[c] = "new"
    /\ \A d \in Conns : d < c => pc[d] # "new"
    /\ connOpen' = [connOpen EXCEPT ![c] = TRUE]
    /\ out' = [out EXCEPT ![c] = Append(@, EnsureNL(ReqUsername))]
    /\ pc' = [pc EXCEPT ![c] = "ws_await"]
    /\ UNCHANGED <<config, client, histLock, main, writing, registered, username, active, chatHistory, chatLog,
                   rlock, locals, counters>>

\* The read of the username: the checks (the search for the name goes over
\* clients), then the rejection and the end of the handler, or the
\* activation of the local client and the welcome.
WsReadUsername(c, l) ==
    /\ pc[c] = "ws_await"
    /\ LET u == TrimSpace(l)
           v == Verdict(c, u)
       IN /\ inLine' = [inLine EXCEPT ![c] = l]
          /\ IF v = "ok"
             THEN /\ name' = [name EXCEPT ![c] = u]
                  /\ username' = [username EXCEPT ![c] = u]
                  /\ active' = [active EXCEPT ![c] = TRUE]
                  /\ out' = sendToWsClient(out, c, Welcome(u))
                  /\ pc' = [pc EXCEPT ![c] = "ws_replay"]
                  /\ UNCHANGED connOpen
             ELSE /\ out' = sendToWsClient(out, c, Rejection(v))
                  /\ connOpen' = [connOpen EXCEPT ![c] = FALSE]
                  /\ pc' = [pc EXCEPT ![c] = "done"]
                  /\ UNCHANGED <<name, username, active>>
    /\ UNCHANGED <<config, client, histLock, main, writing, registered, chatHistory, chatLog, rlock, ctx, arg,
                   text, rcpt, midx, todo, counters>>

\* The replay of the history, under chatHistoryMutex.
WsReplayHistory(c) ==
    /\ pc[c] = "ws_replay"
    /\ hlock = NoConn
    /\ out' = SendAll(out, c, ReplayLines(chatHistory))
    /\ ctx' = [ctx EXCEPT ![c] = "join"]
    /\ pc' = [pc EXCEPT ![c] = "ws_log"]
    /\ UNCHANGED <<config, client, histLock, main, writing, registered, username, active, connOpen,
                   chatHistory, chatLog, rlock, inLine, name, arg, text, rcpt,
                   midx, todo, counters>>

\* logChatMessage of the join, the departure or the global line.
WsLogChat(c) ==
    /\ pc[c] = "ws_log"
    /\ chatLog' = logChatMessage(chatLog, LogText(c))
    /\ pc' = [pc EXCEPT ![c] = "ws_hist"]
    /\ UNCHANGED <<config, client, histLock, main, writing, registered, username, active, connOpen, out,
                   chatHistory, rlock, locals, counters>>

\* addMessageToHistory of the same.
WsAddHistory(c) ==
    /\ pc[c] = "ws_hist"
    /\ hlock = NoConn
    /\ chatHistory' = addMessageToHistory(chatHistory, LogText(c))
    /\ pc' = [pc EXCEPT ![c] = "ws_bcast"]
    /\ UNCHANGED <<config, client, histLock, main, writing, registered, username, active, connOpen, out,
                   chatLog, rlock, locals, counters>>

\* broadcastWebSocketMessage: the loop over wsClients finds the map empty,
\* and the loop over clients sends nothing (its sendToClient is commented
\* out).
broadcastWebSocketMessage(c) ==
    /\ pc[c] = "ws_bcast"
    /\ pc' = [pc EXCEPT ![c] = IF ctx[c] = "leave" THEN "done" ELSE "ws_loop"]
    /\ UNCHANGED <<config, client, histLock, main, writing, registered, username, active, connOpen, out,
                   chatHistory, chatLog, rlock, locals, counters>>

\* A text message read in the loop: the stubs of the two commands, or the
\* global branch.
WsRecv(c, l) ==
    /\ pc[c] = "ws_loop"
    /\ nmsgs < MaxMsgs
    /\ nmsgs' = nmsgs + 1
    /\ UNCHANGED nerrs
    /\ inLine' = [inLine EXCEPT ![c] = l]
    /\ IF Classify(l) = "privmsg"
       THEN /\ out' = sendToWsClient(out, c, WsDmStub)
            /\ UNCHANGED <<pc, ctx, text>>
       ELSE IF Classify(l) = "groupmsg"
       THEN /\ out' = sendToWsClient(out, c, WsGmStub)
            /\ UNCHANGED <<pc, ctx, text>>
       ELSE /\ ctx' = [ctx EXCEPT ![c] = "global"]
            /\ text' = [text EXCEPT ![c] = l]
            /\ pc' = [pc EXCEPT ![c] = "ws_log"]
            /\ UNCHANGED out
    /\ UNCHANGED <<config, client, histLock, main, writing, registered, username, active, connOpen,
                   chatHistory, chatLog, rlock, name, arg, rcpt, midx, todo>>

\* A read fails: the handler returns and the deferred function closes the
\* WebSocket.
WsReadError(c) ==
    /\ pc[c] \in {"ws_await", "ws_loop"}
    /\ nerrs < MaxErrs
    /\ nerrs' = nerrs + 1
    /\ connOpen' = [connOpen EXCEPT ![c] = FALSE]
    /\ pc' = [pc EXCEPT ![c] = "ws_closing"]
    /\ UNCHANGED <<config, client, histLock, main, writing, registered, username, active, out, chatHistory,
                   chatLog, rlock, locals, nmsgs>>

\* The rest of the deferred function: for an active client clientsMutex is
\* locked and unlocked (nothing is deleted), then the departure is logged,
\* stored and handed to broadcastWebSocketMessage.
WsCleanup(c) ==
    /\ pc[c] = "ws_closing"
    /\ IF active[c]
       THEN /\ rlock = {}
            /\ ctx' = [ctx EXCEPT ![c] = "leave"]
            /\ pc' = [pc EXCEPT ![c] = "ws_log"]
       ELSE /\ pc' = [pc EXCEPT ![c] = "done"]
            /\ UNCHANGED ctx
    /\ UNCHANGED <<config, client, histLock, main, writing, registered, username, active, connOpen, out,
                   chatHistory, chatLog, rlock, inLine, name, arg, text, rcpt,
                   midx, todo, counters>>

\* ------------------------------------------------------------- the clients

\* The text of the n-th line sent in a run: every line carries its own number.
TextOf(n) == <<"h", " ", ToString(n)>>

UserA == <<"a">>
UserB == <<"b">>
UserC == <<"c">>
\* A name that is not in users.txt.
UserE == <<"e">>
GroupF == <<"f">>
\* A name that is not in groups.txt.
GroupZ == <<"z">>

LineA == UserA \o <<NL>>
LineB == <<" ">> \o UserB \o <<"\r", NL>>

\* What a client may send as its username.
UsernameLines ==
    { LineA, LineB, UserC \o <<NL>>, UserE \o <<NL>>, <<NL>>,
      LongName(USERNAME_MAX_LEN) \o <<NL>> }

DMLine(to, t) == PRIVMSG \o <<" ">> \o to \o <<" ">> \o t \o <<NL>>
GMLine(g, t) == GROUPMSG \o <<" ">> \o g \o <<" ">> \o t \o <<NL>>

\* What an Active client may send as its n-th line, by kind.
DMLines(n) ==
    { DMLine(UserA, TextOf(n)), DMLine(UserB, TextOf(n)),
      DMLine(UserC, TextOf(n)), DMLine(UserE, TextOf(n)),
      PRIVMSG \o <<" ">> \o UserB \o <<NL>> }

GMLines(n) ==
    { GMLine(GroupF, TextOf(n)), GMLine(GroupZ, TextOf(n)),
      GROUPMSG \o <<" ">> \o <<" ">> \o TextOf(n) \o <<NL>> }

GlobalLines(n) == { TextOf(n) \o <<NL>> }

\* A line that is only its terminator.
EmptyLines == { <<NL>> }

\* What an Active WebSocket client may send as its n-th message.
WsLines(n) ==
    { TextOf(n), DMLine(UserB, TextOf(n)), GMLine(GroupF, TextOf(n)) }

\* Command lines without a recipient or group, or without a text.
IncompleteLines(n) ==
    { PRIVMSG \o <<" ", NL>>,
      PRIVMSG \o <<" ">> \o UserB \o <<NL>>,
      PRIVMSG \o <<" ", " ">> \o TextOf(n) \o <<NL>>,
      GROUPMSG \o <<" ", NL>>,
      GROUPMSG \o <<" ">> \o GroupF \o <<NL>>,
      GROUPMSG \o <<" ", " ">> \o TextOf(n) \o <<NL>> }

\* -------------------------------------------------------- specifications

\* The steps of a connection that every session takes: handshake, join,
\* departure.
Session(c) ==
    \/ Accept(c)
    \/ \E l \in UsernameLines : ReadUsername(c, l)
    \/ ReadError(c)
    \/ Activate(c)
    \/ SendWelcome(c)
    \/ ReplayHistory(c)
    \/ LogChat(c)
    \/ AddHistory(c)
    \/ BroadcastStart(c)
    \/ \E r \in Conns : BroadcastSend(c, r)
    \/ BroadcastEnd(c)
    \/ Cleanup(c)

Direct(c) ==
    \/ \E l \in DMLines(nmsgs + 1) : RecvPrivmsg(c, l)
    \/ DMSendRecipient(c)
    \/ DMSendSender(c)

Group(c) ==
    \/ \E l \in GMLines(nmsgs + 1) : RecvGroupmsg(c, l)
    \/ GroupDeliver(c)
    \/ GroupConfirm(c)

Global(c) == \E l \in GlobalLines(nmsgs + 1) : RecvGlobal(c, l)

\* The server: every connection, every kind of line.
Next == \E c \in Conns : Session(c) \/ Direct(c) \/ Group(c) \/ Global(c)

Spec == Init /\ [][Next]_vars

\* Scenarios of Spec that TLC explores in full.

\* Two connections from the start of the server, up to their departure.
FirstTwo == {1, 2}
NextHandshake == \E c \in FirstTwo : Session(c)
SpecHandshake == Init /\ [][NextHandshake]_vars

\* The state of the server once connection 1 has joined as a and then
\* connection 2 as b (a state SpecHandshake reaches), connection 3 not yet
\* accepted.
InitJoined ==
    /\ allowedUsernames = loadAllowedUsers
    /\ groups = loadGroups
    /\ registered = FirstTwo
    /\ username = [c \in Conns |->
                      IF c = 1 THEN UserA ELSE IF c = 2 THEN UserB ELSE <<>>]
    /\ active = [c \in Conns |-> c \in FirstTwo]
    /\ connOpen = [c \in Conns |-> c \in FirstTwo]
    /\ out = [c \in Conns |->
                 IF c = 1
                 THEN <<EnsureNL(ReqUsername), EnsureNL(Welcome(UserA)),
                        EnsureNL(JoinMsg(UserB))>>
                 ELSE IF c = 2
                 THEN <<EnsureNL(ReqUsername), EnsureNL(Welcome(UserB)),
                        EnsureNL(HistoryBegin), EnsureNL(JoinMsg(UserA)),
                        EnsureNL(HistoryEnd)>>
                 ELSE <<>>]
    /\ chatHistory = <<EnsureNL(JoinMsg(UserA)), EnsureNL(JoinMsg(UserB))>>
    /\ chatLog = <<Timestamp \o EnsureNL(JoinMsg(UserA)),
                   Timestamp \o EnsureNL(JoinMsg(UserB))>>
    /\ rlock = {}
    /\ pc = [c \in Conns |-> IF c \in FirstTwo THEN "loop" ELSE "new"]
    /\ ctx = [c \in Conns |-> IF c \in FirstTwo THEN "join" ELSE "none"]
    /\ inLine = [c \in Conns |->
                    IF c = 1 THEN LineA ELSE IF c = 2 THEN LineB ELSE <<>>]
    /\ name = [c \in Conns |->
                  IF c = 1 THEN UserA ELSE IF c = 2 THEN UserB ELSE <<>>]
    /\ arg = [c \in Conns |-> <<>>]
    /\ text = [c \in Conns |-> <<>>]
    /\ rcpt = [c \in Conns |-> NoConn]
    /\ midx = [c \in Conns |-> 0]
    /\ todo = [c \in Conns |-> {}]
    /\ nmsgs = 0
    /\ nerrs = 0
    /\ main = "accept"
    /\ writing = [c \in Conns |-> {}]
    /\ hlock = NoConn
    /\ hidx = [c \in Conns |-> 0]
    /\ cc = NewClientCore("nop")
    /\ cl = NoGoroutines

\* a and b are Active, a third connection arrives; global lines.
NextGlobal == \E c \in Conns : Session(c) \/ Global(c)
SpecGlobal == InitJoined /\ [][NextGlobal]_vars

\* The same with PRIVMSG lines.
NextDirect == \E c \in Conns : Session(c) \/ Direct(c)
SpecDirect == InitJoined /\ [][NextDirect]_vars

\* The same with GROUPMSG lines.
NextGroup == \E c \in Conns : Session(c) \/ Group(c)
SpecGroup == InitJoined /\ [][NextGroup]_vars

\* The state of the server once connections 1 and 2 have both joined as a
\* (each passed the search for the name before the other was made active; a
\* state SpecHandshake reaches), connection 3 not yet accepted.
InitTwins ==
    /\ allowedUsernames = loadAllowedUsers
    /\ groups = loadGroups
    /\ registered = FirstTwo
    /\ username = [c \in Conns |-> IF c \in FirstTwo THEN UserA ELSE <<>>]
    /\ active = [c \in Conns |-> c \in FirstTwo]
    /\ connOpen = [c \in Conns |-> c \in FirstTwo]
    /\ out = [c \in Conns |->
                 IF c \in FirstTwo
                 THEN <<EnsureNL(ReqUsername), EnsureNL(Welcome(UserA)),
                        EnsureNL(JoinMsg(UserA))>>
                 ELSE <<>>]
    /\ chatHistory = <<EnsureNL(JoinMsg(UserA)), EnsureNL(JoinMsg(UserA))>>
    /\ chatLog = <<Timestamp \o EnsureNL(JoinMsg(UserA)),
                   Timestamp \o EnsureNL(JoinMsg(UserA))>>
    /\ rlock = {}
    /\ pc = [c \in Conns |-> IF c \in FirstTwo THEN "loop" ELSE "new"]
    /\ ctx = [c \in Conns |-> IF c \in FirstTwo THEN "join" ELSE "none"]
    /\ inLine = [c \in Conns |-> IF c \in FirstTwo THEN LineA ELSE <<>>]
    /\ name = [c \in Conns |-> IF c \in FirstTwo THEN UserA ELSE <<>>]
    /\ arg = [c \in Conns |-> <<>>]
    /\ text = [c \in Conns |-> <<>>]
    /\ rcpt = [c \in Conns |-> NoConn]
    /\ midx = [c \in Conns |-> 0]
    /\ todo = [c \in Conns |-> {}]
    /\ nmsgs = 0
    /\ nerrs = 0
    /\ main = "accept"
    /\ writing = [c \in Conns |-> {}]
    /\ hlock = NoConn
    /\ hidx = [c \in Conns |-> 0]
    /\ cc = NewClientCore("nop")
    /\ cl = NoGoroutines

\* From there: a third connection arrives, one connection is lost.
NextTwins == \E c \in Conns : Session(c)
SpecTwins == InitTwins /\ [][NextTwins]_vars

\* The same with lines of every kind.
SpecRouter == InitJoined /\ [][Next]_vars

\* A config/groups.txt that names a member twice: the group f with members
\* a, b and b again.
GroupsFileRepeated ==
    << <<"f", ":", "a", ",", "b", ",", " ", "b", ",">> >>

\* a and b are Active as in InitJoined, the server having loaded that file.
InitRepeated ==
    /\ allowedUsernames = loadAllowedUsers
    /\ groups = LoadGroupsFrom(GroupsFileRepeated, <<>>)
    /\ registered = FirstTwo
    /\ username = [c \in Conns |->
                      IF c = 1 THEN UserA ELSE IF c = 2 THEN UserB ELSE <<>>]
    /\ active = [c \in Conns |-> c \in FirstTwo]
    /\ connOpen = [c \in Conns |-> c \in FirstTwo]
    /\ out = [c \in Conns |->
                 IF c = 1
                 THEN <<EnsureNL(ReqUsername), EnsureNL(Welcome(UserA)),
                        EnsureNL(JoinMsg(UserB))>>
                 ELSE IF c = 2
                 THEN <<EnsureNL(ReqUsername), EnsureNL(Welcome(UserB)),
                        EnsureNL(HistoryBegin), EnsureNL(JoinMsg(UserA)),
                        EnsureNL(HistoryEnd)>>
                 ELSE <<>>]
    /\ chatHistory = <<EnsureNL(JoinMsg(UserA)), EnsureNL(JoinMsg(UserB))>>
    /\ chatLog = <<Timestamp \o EnsureNL(JoinMsg(UserA)),
                   Timestamp \o EnsureNL(JoinMsg(UserB))>>
    /\ rlock = {}
    /\ pc = [c \in Conns |-> IF c \in FirstTwo THEN "loop" ELSE "new"]
    /\ ctx = [c \in Conns |-> IF c \in FirstTwo THEN "join" ELSE "none"]
    /\ inLine = [c \in Conns |->
                    IF c = 1 THEN LineA ELSE IF c = 2 THEN LineB ELSE <<>>]
    /\ name = [c \in Conns |->
                  IF c = 1 THEN UserA ELSE IF c = 2 THEN UserB ELSE <<>>]
    /\ arg = [c \in Conns |-> <<>>]
    /\ text = [c \in Conns |-> <<>>]
    /\ rcpt = [c \in Conns |-> NoConn]
    /\ midx = [c \in Conns |-> 0]
    /\ todo = [c \in Conns |-> {}]
    /\ nmsgs = 0
    /\ nerrs = 0
    /\ main = "accept"
    /\ writing = [c \in Conns |-> {}]
    /\ hlock = NoConn
    /\ hidx = [c \in Conns |-> 0]
    /\ cc = NewClientCore("nop")
    /\ cl = NoGoroutines

\* Group lines with that group table.
SpecRepeated == InitRepeated /\ [][NextGroup]_vars

\* The steps of a session with the history replay taken write by write.
Joining(c) ==
    \/ Accept(c)
    \/ \E l \in UsernameLines : ReadUsername(c, l)
    \/ ReadError(c)
    \/ Activate(c)
    \/ SendWelcome(c)
    \/ ReplayLock(c)
    \/ ReplayLine(c)
    \/ ReplayUnlock(c)
    \/ LogChat(c)
    \/ AddHistory(c)
    \/ BroadcastStart(c)
    \/ \E r \in Conns : BroadcastSend(c, r)
    \/ BroadcastEnd(c)
    \/ Cleanup(c)

\* a and b are Active, a third connection arrives; global lines.
NextReplay == \E c \in Conns : Joining(c) \/ Global(c)
SpecReplay == InitJoined /\ [][NextReplay]_vars

\* The same with lines of every kind.
NextLocks == \E c \in Conns : Joining(c) \/ Direct(c) \/ Group(c) \/ Global(c)
SpecLocks == InitJoined /\ [][NextLocks]_vars

\* The same with a log file that may refuse a write.
NextLogFail ==
    \E c \in Conns :
        Session(c) \/ Direct(c) \/ Group(c) \/ Global(c) \/ LogChatFails(c)
SpecLogFail == InitJoined /\ [][NextLogFail]_vars

\* The same with incomplete command lines: the message loop takes the branch
\* its tests choose for the line.
Incomplete(c) ==
    \E l \in IncompleteLines(nmsgs + 1) :
        RecvPrivmsg(c, l) \/ RecvGroupmsg(c, l) \/ RecvGlobal(c, l)
NextIncomplete == \E c \in Conns : Session(c) \/ Incomplete(c)
SpecIncomplete == InitJoined /\ [][NextIncomplete]_vars

\* The same with an empty line, which the tests of the loop pass on to the
\* last branch.
Empty(c) == \E l \in EmptyLines : RecvGlobal(c, l)
NextEmpty == \E c \in Conns : Session(c) \/ Empty(c)
SpecEmpty == InitJoined /\ [][NextEmpty]_vars

\* The steps of a WebSocket connection.
WebSocket(c) ==
    \/ WsAccept(c)
    \/ \E l \in UsernameLines : WsReadUsername(c, l)
    \/ WsReplayHistory(c)
    \/ WsLogChat(c)
    \/ WsAddHistory(c)
    \/ broadcastWebSocketMessage(c)
    \/ \E l \in WsLines(nmsgs + 1) : WsRecv(c, l)
    \/ WsReadError(c)
    \/ WsCleanup(c)

\* a and b are Active over TCP; the third connection arrives over TCP or
\* over WebSocket; global lines over TCP, every kind over WebSocket.
NextWs == \E c \in Conns : Session(c) \/ Global(c) \/ WebSocket(c)
SpecWs == InitJoined /\ [][NextWs]_vars

\* a and b are Active; a sends global lines one after the other until the
\* history buffer has overflowed, while b may be disconnected.
NextHistory ==
    \E c \in FirstTwo :
        \/ c = 1 /\ \E l \in GlobalLines(nmsgs + 1) : RecvGlobalUpTo(c, l, MaxBurst)
        \/ LogChat(c)
        \/ AddHistory(c)
        \/ BroadcastStart(c)
        \/ \E r \in Conns : BroadcastSend(c, r)
        \/ BroadcastEnd(c)
        \/ c = 2 /\ ReadError(c)
        \/ Cleanup(c)
SpecHistory == InitJoined /\ [][NextHistory]_vars


\* The start of the process: no file read, no connection accepted.
InitStart ==
    /\ allowedUsernames = {}
    /\ groups = <<>>
    /\ registered = {}
    /\ username = [c \in Conns |-> <<>>]
    /\ active = [c \in Conns |-> FALSE]
    /\ connOpen = [c \in Conns |-> FALSE]
    /\ out = [c \in Conns |-> <<>>]
    /\ chatHistory = <<>>
    /\ chatLog = <<>>
    /\ rlock = {}
    /\ pc = [c \in Conns |-> "new"]
    /\ ctx = [c \in Conns |-> "none"]
    /\ inLine = [c \in Conns |-> <<>>]
    /\ name = [c \in Conns |-> <<>>]
    /\ arg = [c \in Conns |-> <<>>]
    /\ text = [c \in Conns |-> <<>>]
    /\ rcpt = [c \in Conns |-> NoConn]
    /\ midx = [c \in Conns |-> 0]
    /\ todo = [c \in Conns |-> {}]
    /\ nmsgs = 0
    /\ nerrs = 0
    /\ main = "users"
    /\ writing = [c \in Conns |-> {}]
    /\ hlock = NoConn
    /\ hidx = [c \in Conns |-> 0]
    /\ cc = NewClientCore("nop")
    /\ cl = NoGoroutines

\* The steps of Start.
Listener ==
    \/ StartLoadUsers
    \/ StartLoadGroups
    \/ StartOpenLog
    \/ StartListen
    \/ AcceptFails
    \/ AcceptErrorHandled
    \/ AcceptRetry

\* Start and the sessions of two connections.  What the goroutines of the
\* sessions do once Start has returned is up to the caller of Start, which is
\* not part of the package: they are followed while Start runs.
NextStart ==
    \/ Listener
    \/ main \in Listening /\ \E c \in FirstTwo : Session(c)
SpecStart == InitStart /\ [][NextStart]_vars

\* Two connections from the start of the server, each over TCP or over
\* WebSocket.
NextMixed == \E c \in FirstTwo : Session(c) \/ WebSocket(c)
SpecMixed == Init /\ [][NextMixed]_vars

\* a and b are Active, a third connection arrives, global lines; the writes
\* of the broadcasts are followed call by call.
Writers(c) ==
    \/ Accept(c)
    \/ \E l \in UsernameLines : ReadUsername(c, l)
    \/ Activate(c)
    \/ SendWelcome(c)
    \/ ReplayHistory(c)
    \/ LogChat(c)
    \/ AddHistory(c)
    \/ BroadcastStart(c)
    \/ \E r \in Conns : BroadcastWrite(c, r)
    \/ \E r \in Conns : BroadcastFlush(c, r)
    \/ BroadcastEnd(c)
NextWriters == \E c \in Conns : Writers(c) \/ Global(c)
SpecWriters == InitJoined /\ [][NextWriters]_vars

\* The steps a handler takes without waiting for its client: its goroutine
\* is runnable (or waits for a lock that is released in the end), and the Go
\* scheduler runs it.
Handler(c) ==
    \/ Activate(c)
    \/ SendWelcome(c)
    \/ ReplayHistory(c)
    \/ LogChat(c)
    \/ AddHistory(c)
    \/ BroadcastStart(c)
    \/ \E r \in Conns : BroadcastSend(c, r)
    \/ BroadcastEnd(c)
    \/ Cleanup(c)

\* SpecGlobal with every goroutine scheduled as long as it can run.
SpecDeparture ==
    InitJoined /\ [][NextGlobal]_vars /\ \A c \in Conns : WF_vars(Handler(c))

\* SpecStart with the goroutine of Start scheduled in its accept loop: the
\* handling of an accept error and the end of the sleep do not wait for
\* anything outside the process.
SpecStartFair ==
    SpecStart /\ WF_vars(AcceptErrorHandled) /\ WF_vars(AcceptRetry)

\* The first client connects and never sends a line; the clients after it
\* connect, send a username of their own that is on the list, and a global
\* line.
Silent == 1
NameLineOf(c) == IF c = 2 THEN LineA ELSE IF c = 3 THEN LineB ELSE UserC \o <<NL>>

Stalled(c) ==
    \/ Accept(c)
    \/ c # Silent /\ ReadUsername(c, NameLineOf(c))
    \/ Activate(c)
    \/ SendWelcome(c)
    \/ ReplayHistory(c)
    \/ LogChat(c)
    \/ AddHistory(c)
    \/ BroadcastStart(c)
    \/ \E r \in Conns : BroadcastSend(c, r)
    \/ BroadcastEnd(c)
    \/ Global(c)
NextStalled == \E c \in Conns : Stalled(c)

\* Every goroutine is scheduled, and the clients other than the first do
\* connect and send.
SpecStalled ==
    Init /\ [][NextStalled]_vars /\ \A c \in Conns : WF_vars(Stalled(c))

\* The client of the third connection reads what it is sent until its
\* session is in the message loop and nothing from then on: with the
\* transport's buffers full, a write to it does not return while its
\* connection is up.
Deaf == 3
Returns(r) == r # Deaf \/ pc[Deaf] # "loop"

DeafSession(c) ==
    \/ Accept(c)
    \/ \E l \in UsernameLines : ReadUsername(c, l)
    \/ ReadError(c)
    \/ Activate(c)
    \/ SendWelcome(c)
    \/ ReplayHistory(c)
    \/ LogChat(c)
    \/ AddHistory(c)
    \/ BroadcastStart(c)
    \/ \E r \in Conns : Returns(r) /\ BroadcastSend(c, r)
    \/ BroadcastEnd(c)
    \/ Cleanup(c)
NextDeaf == \E c \in Conns : DeafSession(c) \/ Global(c)

\* What a handler does between two reads; every goroutine is scheduled.
DeafHandler(c) ==
    \/ Activate(c)
    \/ SendWelcome(c)
    \/ ReplayHistory(c)
    \/ LogChat(c)
    \/ AddHistory(c)
    \/ BroadcastStart(c)
    \/ \E r \in Conns : Returns(r) /\ BroadcastSend(c, r)
    \/ BroadcastEnd(c)
    \/ Cleanup(c)
SpecDeaf ==
    InitJoined /\ [][NextDeaf]_vars /\ \A c \in Conns : WF_vars(DeafHandler(c))

\* ------------------------------------------------------------ the client core

\* Every variable of the server; the client's steps leave them alone.
server ==
    <<config, histLock, main, writing, registered, username, active, connOpen,
      out, chatHistory, chatLog, rlock, pc, locals, counters>>

\* A status callback that does not take cc.mu returns; one that asks
\* IsLoggedIn() returns once it gets the mutex.
Reports == cc.onStatusChange = "nop" \/ cc.mu = "free"

\* Where a goroutine goes on when Disconnect returns.
Returned(g) ==
    IF g = "ui" THEN "idle" ELSE IF g = "reader" THEN "wgdone" ELSE "done"

\* Connect: already connected, or the dial fails, or the fields are set and
\* the reader goroutine started (wg.Add(1)).  The client connects once.
Connect ==
    /\ cl.pc["ui"] = "idle"
    /\ cl.ncalls < MaxCalls
    /\ cc.mu = "free"
    /\ IF cc.isConnected
       THEN /\ cl' = [cl EXCEPT !.op = "Connect", !.ncalls = @ + 1, !.ret = "nil",
                                !.status = "Already connected."]
            /\ UNCHANGED cc
       ELSE /\ cl.pc["reader"] = "none"
            /\ \/ /\ cl' = [cl EXCEPT !.op = "Connect", !.ncalls = @ + 1,
                                      !.ret = "error",
                                      !.status = "TCP Connection failed: connection refused"]
                  /\ UNCHANGED cc
               \/ /\ cc' = [cc EXCEPT !.isConnected = TRUE,
                                      !.loginPhaseComplete = FALSE,
                                      !.shutdownClosed = FALSE,
                                      !.connClosed = FALSE,
                                      !.wg = @ + 1]
                  /\ cl' = [cl EXCEPT !.op = "Connect", !.ncalls = @ + 1,
                                      !.ret = "nil",
                                      !.status = "Connected to 127.0.0.1:8080 (TCP).",
                                      !.pc["reader"] = "select"]
    /\ UNCHANGED server

\* SendUsername with the test of isConnected only.
SendUsernameAnyPhase(u) ==
    /\ cl.pc["ui"] = "idle"
    /\ cl.ncalls < MaxCalls
    /\ cc.mu = "free"
    /\ IF ~cc.isConnected
       THEN cl' = [cl EXCEPT !.op = "SendUsername", !.ncalls = @ + 1,
                             !.ret = "error",
                             !.status = "Cannot send username: Not connected."]
       ELSE cl' = [cl EXCEPT !.op = "SendUsername", !.ncalls = @ + 1,
                             !.ret = "none", !.msg = u, !.pc["ui"] = "send"]
    /\ UNCHANGED <<cc, server>>

\* SendUsername up to its call of sendToServer: the two tests under cc.mu,
\* then the remarks on an empty or too long name, which do not return.
SendUsername(u) ==
    /\ cl.pc["ui"] = "idle"
    /\ cl.ncalls < MaxCalls
    /\ cc.mu = "free"
    /\ IF ~cc.isConnected
       THEN cl' = [cl EXCEPT !.op = "SendUsername", !.ncalls = @ + 1,
                             !.ret = "error",
                             !.status = "Cannot send username: Not connected."]
       ELSE IF cc.loginPhaseComplete
       THEN cl' = [cl EXCEPT !.op = "SendUsername", !.ncalls = @ + 1,
                             !.ret = "error",
                             !.status = "Cannot send username: Login already complete."]
       ELSE cl' = [cl EXCEPT !.op = "SendUsername", !.ncalls = @ + 1,
                             !.ret = "none", !.msg = u, !.pc["ui"] = "send",
                             !.status = IF u = <<>>
                                        THEN "Username cannot be empty."
                                        ELSE IF Len(u) >= USERNAME_MAX_LEN
                                        THEN "Username too long."
                                        ELSE @]
    /\ UNCHANGED <<cc, server>>

\* The head of SendGlobalMessage, SendDirectMessage and SendGroupMessage:
\* the test under cc.mu, then the tests of the arguments; wire is the line
\* sendToServer is then called with.
SendMessage(op, refusal, invalid, whenInvalid, wire) ==
    /\ cl.pc["ui"] = "idle"
    /\ cl.ncalls < MaxCalls
    /\ cc.mu = "free"
    /\ IF ~cc.isConnected \/ ~cc.loginPhaseComplete
       THEN cl' = [cl EXCEPT !.op = op, !.ncalls = @ + 1, !.ret = "error",
                             !.status = refusal]
       ELSE IF invalid
       THEN cl' = [cl EXCEPT !.op = op, !.ncalls = @ + 1, !.ret = whenInvalid]
       ELSE cl' = [cl EXCEPT !.op = op, !.ncalls = @ + 1, !.ret = "none",
                             !.msg = wire, !.pc["ui"] = "send"]
    /\ UNCHANGED <<cc, server>>

SendGlobalMessage(message) ==
    SendMessage("SendGlobalMessage",
                "Cannot send message: Not connected or not logged in.",
                message = <<>>, "nil", message)

SendDirectMessage(recipient, message) ==
    SendMessage("SendDirectMessage",
                "Cannot send DM: Not connected or not logged in.",
                recipient = <<>> \/ message = <<>>
                    \/ Len(recipient) >= USERNAME_MAX_LEN,
                "error",
                PRIVMSG \o <<" ">> \o recipient \o <<" ">> \o message)

SendGroupMessage(groupname, message) ==
    SendMessage("SendGroupMessage",
                "Cannot send group message: Not connected or not logged in.",
                groupname = <<>> \/ message = <<>>
                    \/ Len(groupname) >= GROUPNAME_MAX_LEN,
                "error",
                GROUPMSG \o <<" ">> \o groupname \o <<" ">> \o message)

\* sendToServer: under cc.mu, nothing is written when not connected;
\* otherwise the line, with its newline, goes to the server.
sendToServer ==
    /\ cl.pc["ui"] = "send"
    /\ cc.mu = "free"
    /\ IF ~cc.isConnected
       THEN cl' = [cl EXCEPT !.ret = "error", !.pc["ui"] = "idle"]
       ELSE cl' = [cl EXCEPT !.ret = "nil", !.pc["ui"] = "idle",
                             !.sent = Append(@, EnsureNL(cl.msg))]
    /\ UNCHANGED <<cc, server>>

\* The caller of the API calls Disconnect.
DisconnectCall ==
    /\ cl.pc["ui"] = "idle"
    /\ cl.ncalls < MaxCalls
    /\ cl' = [cl EXCEPT !.op = "Disconnect", !.ncalls = @ + 1, !.ret = "none",
                        !.pc["ui"] = "disc"]
    /\ UNCHANGED <<cc, server>>

\* Some other goroutine of the application calls Disconnect.
DisconnectElsewhere ==
    /\ cl.pc["aux"] = "none"
    /\ cl' = [cl EXCEPT !.pc["aux"] = "disc"]
    /\ UNCHANGED <<cc, server>>

\* Disconnect: cc.mu.Lock(); not connected: unlock and return.  Otherwise
\* onStatusChange("Disconnecting from server...") is called with the mutex
\* held.
DisconnectLock(g) ==
    /\ cl.pc[g] = "disc"
    /\ cc.mu = "free"
    /\ IF ~cc.isConnected
       THEN /\ cl' = [cl EXCEPT !.pc[g] = Returned(g),
                                !.ret = IF g = "ui" THEN "nil" ELSE @]
            /\ UNCHANGED cc
       ELSE /\ cc' = [cc EXCEPT !.mu = g]
            /\ cl' = [cl EXCEPT !.pc[g] = "disc_status",
                                !.status = "Disconnecting from server..."]
    /\ UNCHANGED server

\* The callback has returned (one that asks IsLoggedIn() waits for the mutex
\* its caller holds): the shutdown channel is closed unless it is closed
\* already, the connection closed, isConnected reset, the mutex released.
DisconnectClose(g) ==
    /\ cl.pc[g] = "disc_status"
    /\ cc.mu = g
    /\ cc.onStatusChange = "nop"
    /\ cc' = [cc EXCEPT !.shutdownClosed = TRUE, !.connClosed = TRUE,
                        !.isConnected = FALSE, !.mu = "free"]
    /\ cl' = [cl EXCEPT !.pc[g] = "disc_wait",
                        !.closes = IF cc.shutdownClosed THEN @ ELSE @ + 1]
    /\ UNCHANGED server

\* cc.wg.Wait() has returned: onStatusChange("Disconnected.").
DisconnectWait(g) ==
    /\ cl.pc[g] = "disc_wait"
    /\ cc.wg = 0
    /\ Reports
    /\ cl' = [cl EXCEPT !.pc[g] = Returned(g),
                        !.ret = IF g = "ui" THEN "nil" ELSE @,
                        !.status = "Disconnected."]
    /\ UNCHANGED <<cc, server>>

\* processIncomingMessages, the head of the loop: the shutdown signal ends
\* it; so does, under cc.mu, a core that is not connected.
ReaderSelect ==
    /\ cl.pc["reader"] = "select"
    /\ IF cc.shutdownClosed
       THEN /\ Reports
            /\ cl' = [cl EXCEPT !.pc["reader"] = "cleanup",
                                !.status = "Shutdown signal received, stopping message processing."]
       ELSE /\ cc.mu = "free"
            /\ cl' = [cl EXCEPT !.pc["reader"] =
                                    IF cc.isConnected THEN "read" ELSE "cleanup"]
    /\ UNCHANGED <<cc, server>>

\* ReadString returns a line of the server.
ReaderRead(l) ==
    /\ cl.pc["reader"] = "read"
    /\ ~cc.connClosed
    /\ cl.nlines < MaxLines
    /\ cl' = [cl EXCEPT !.line = l, !.nlines = @ + 1, !.pc["reader"] = "handle"]
    /\ UNCHANGED <<cc, server>>

\* ReadString returns an error: under cc.mu the reader looks at the shutdown
\* signal and at isConnected; a shutdown is a plain return, an error while
\* connected is reported first.
ReadFailed ==
    /\ cc.mu = "free"
    /\ IF ~cc.shutdownClosed /\ cc.isConnected
       THEN cl' = [cl EXCEPT !.pc["reader"] = "cleanup",
                             !.status = "Server closed the connection."]
       ELSE cl' = [cl EXCEPT !.pc["reader"] = "cleanup"]
    /\ UNCHANGED <<cc, server>>

\* The read fails because Disconnect closed the connection.
ReaderReadClosed ==
    /\ cl.pc["reader"] = "read"
    /\ cc.connClosed
    /\ ReadFailed

\* The read fails because the server closed the connection or the network
\* failed.
ReaderReadEOF ==
    /\ cl.pc["reader"] = "read"
    /\ ~cc.connClosed
    /\ ReadFailed

\* handleServerMessage(line), and back to the head of the loop.
handleServerMessage ==
    /\ cl.pc["reader"] = "handle"
    /\ cc.mu = "free"
    /\ LET trimmedLine == TrimSpace(cl.line)
           parts == SplitN(trimmedLine, " ", 2)
           namePart == IF Len(parts) = 2 THEN parts[2] ELSE <<>>
           welcomeUsername ==
               IF namePart # <<>> /\ namePart[Len(namePart)] = "!"
               THEN SubSeq(namePart, 1, Len(namePart) - 1)
               ELSE namePart
           next == [cl EXCEPT !.pc["reader"] = "select"]
           goDisconnect(c) ==
               [c EXCEPT !.pc["aux"] = IF @ = "none" THEN "disc" ELSE @]
       IN IF cc.loginPhaseComplete \/ trimmedLine = <<"REQ_USERNAME">>
          THEN cl' = next /\ UNCHANGED cc
          ELSE IF trimmedLine = <<"SERVER_FULL">>
          THEN /\ cl' = goDisconnect([next EXCEPT !.status = "Server is full. Disconnecting."])
               /\ UNCHANGED cc
          ELSE IF HasPrefix(trimmedLine, <<"Welcome,", " ">>)
          THEN /\ cc' = [cc EXCEPT !.loginPhaseComplete = TRUE,
                                   !.username = welcomeUsername]
               /\ cl' = next
          ELSE IF \/ HasPrefix(trimmedLine, <<"BAD_USERNAME">>)
                  \/ HasPrefix(trimmedLine, <<"NOT_ALLOWED">>)
          THEN /\ cl' = goDisconnect([next EXCEPT !.status = "Login failed by server. Disconnecting."])
               /\ UNCHANGED cc
          ELSE cl' = next /\ UNCHANGED cc
    /\ UNCHANGED server

\* The deferred function of the reader that runs first: a core that is
\* still connected is reported as lost and Disconnect is called, by the
\* reader itself.
ReaderCleanup ==
    /\ cl.pc["reader"] = "cleanup"
    /\ cc.mu = "free"
    /\ IF cc.isConnected
       THEN cl' = [cl EXCEPT !.pc["reader"] = "disc",
                             !.status = "Connection lost. Attempting to clean up."]
       ELSE cl' = [cl EXCEPT !.pc["reader"] = "wgdone"]
    /\ UNCHANGED <<cc, server>>

\* The deferred cc.wg.Done(), which runs last.
ReaderDone ==
    /\ cl.pc["reader"] = "wgdone"
    /\ cc' = [cc EXCEPT !.wg = @ - 1]
    /\ cl' = [cl EXCEPT !.pc["reader"] = "done"]
    /\ UNCHANGED server

\* IsConnected() and IsLoggedIn(), which take cc.mu for the read.
IsConnected == cc.isConnected
IsLoggedIn == cc.isConnected /\ cc.loginPhaseComplete

\* The welcome as the client reads it: the text of Welcome(u) and its
\* newline, split at the blank SplitN looks for.
WelcomeLine(u) == <<"Welcome,", " ">> \o u \o <<"!", NL>>

\* What the user of the CLI types, and what the server sends a client.
ClientNames == {<<>>, UserA}
ClientTexts == {<<>>, TextOf(1)}
ServerLines ==
    { ReqUsername \o <<NL>>, <<"SERVER_FULL", NL>>, WelcomeLine(UserA),
      <<"Welcome,", NL>>, <<"BAD_USERNAME", NL>>, <<"NOT_ALLOWED", NL>>,
      GlobalMsg(UserB, TextOf(1)) \o <<NL>> }

\* The calls of the application.
Calls ==
    \/ Connect
    \/ \E u \in ClientNames : SendUsername(u)
    \/ \E m \in ClientTexts : SendGlobalMessage(m)
    \/ \E r \in ClientNames, m \in ClientTexts : SendDirectMessage(r, m)
    \/ \E g \in {<<>>, GroupF}, m \in ClientTexts : SendGroupMessage(g, m)
    \/ DisconnectCall
    \/ DisconnectElsewhere

\* The steps of Disconnect, whoever runs it.
Disconnect(g) == DisconnectLock(g) \/ DisconnectClose(g) \/ DisconnectWait(g)

\* processIncomingMessages without the reads that need the server.
processIncomingMessages ==
    \/ ReaderSelect
    \/ ReaderReadClosed
    \/ handleServerMessage
    \/ ReaderCleanup
    \/ ReaderDone

\* What a goroutine does by itself once called or started.
ClientStep(g) ==
    \/ Disconnect(g)
    \/ g = "ui" /\ sendToServer
    \/ g = "reader" /\ processIncomingMessages

NextClient ==
    \/ Calls
    \/ sendToServer
    \/ \E g \in Goroutines : Disconnect(g)
    \/ \E l \in ServerLines : ReaderRead(l)
    \/ ReaderReadEOF
    \/ processIncomingMessages

\* The state after NewClientCore, with either kind of status callback.
InitClient ==
    /\ allowedUsernames = loadAllowedUsers
    /\ groups = loadGroups
    /\ registered = {}
    /\ username = [c \in Conns |-> <<>>]
    /\ active = [c \in Conns |-> FALSE]
    /\ connOpen = [c \in Conns |-> FALSE]
    /\ out = [c \in Conns |-> <<>>]
    /\ chatHistory = <<>>
    /\ chatLog = <<>>
    /\ rlock = {}
    /\ pc = [c \in Conns |-> "new"]
    /\ ctx = [c \in Conns |-> "none"]
    /\ inLine = [c \in Conns |-> <<>>]
    /\ name = [c \in Conns |-> <<>>]
    /\ arg = [c \in Conns |-> <<>>]
    /\ text = [c \in Conns |-> <<>>]
    /\ rcpt = [c \in Conns |-> NoConn]
    /\ midx = [c \in Conns |-> 0]
    /\ todo = [c \in Conns |-> {}]
    /\ nmsgs = 0
    /\ nerrs = 0
    /\ main = "accept"
    /\ writing = [c \in Conns |-> {}]
    /\ hlock = NoConn
    /\ hidx = [c \in Conns |-> 0]
    /\ cc \in {NewClientCore(k) : k \in {"nop", "queries"}}
    /\ cl = NoGoroutines

\* A client and nothing else: the server's variables stay as they start.
SpecClient == InitClient /\ [][NextClient]_vars

\* The same with every goroutine scheduled.
SpecClientFair == SpecClient /\ \A g \in Goroutines : WF_vars(ClientStep(g))

\* ------------------------------------------------------------------ claims

\* Number of times line x was written to a stream.
Count(stream, x) == Cardinality({i \in DOMAIN stream : stream[i] = x})

\* The names the users file allows, written out.
AllowList == {<<"a">>, <<"b">>, <<"c">>}

\* In this step the handler of c reads the username line inLine'[c].
ReadsUsername(c) == pc[c] = "await" /\ inLine'[c] # inLine[c]

\* The session of c is Active in the registry.
IsActive(c) == c \in registered /\ active[c]

\* C1: in every reachable state there is at most one Active session in the
\* registry for any username.
C1_Uniqueness ==
    \A c, d \in Conns :
        (IsActive(c) /\ IsActive(d) /\ username[c] = username[d]) => c = d

\* C2: a handshake line whose username is valid, allowed and the name of a
\* session that is Active in the registry is answered with BAD_USERNAME /
\* "Username already in use." and the connection is closed; the step leaves
\* the registry as it is, and the rejected connection is never Active.
C2_RejectLine == <<"BAD_USERNAME", NL, "Username already in use.", NL>>

C2_Step ==
    \A c \in Conns :
        LET u == TrimSpace(inLine'[c]) IN
        ( /\ ReadsUsername(c)
          /\ u # <<>> /\ Len(u) < 50 /\ u \in AllowList
          /\ \E r \in Conns \ {c} : IsActive(r) /\ username[r] = u )
        => /\ out'[c] = Append(out[c], C2_RejectLine)
           /\ ~connOpen'[c]
           /\ ~active'[c]
           /\ pc'[c] = "closing"
           /\ registered' = registered
           /\ active' = active
           /\ username' = username

C2_NeverActive ==
    \A c \in Conns :
        Count(out[c], C2_RejectLine) > 0 =>
            ~active[c] /\ ~connOpen[c] /\ pc[c] \in {"closing", "done"}

C2_InUseRejected == [][C2_Step]_vars /\ []C2_NeverActive

C2_Witness ==
    \E c, r \in Conns :
        /\ c # r
        /\ Count(out[c], C2_RejectLine) = 1
        /\ IsActive(r)
        /\ username[r] = TrimSpace(inLine[c])

\* C3: a handshake line with a valid username that is not on the allow-list
\* is answered with NOT_ALLOWED, the connection is closed and never Active; one
\* with an allowed username that no Active session holds goes on to become
\* Active under that name and is sent "Welcome, <username>!" once.
C3_RejectLine == <<"NOT_ALLOWED", NL, "Username not on allowed list.", NL>>
C3_WelcomeLine(u) == <<"Welcome, ">> \o u \o <<"!", NL>>

C3_Step ==
    \A c \in Conns :
        LET u == TrimSpace(inLine'[c]) IN
        (ReadsUsername(c) /\ u # <<>> /\ Len(u) < 50)
        => /\ u \notin AllowList =>
                /\ out'[c] = Append(out[c], C3_RejectLine)
                /\ ~connOpen'[c]
                /\ ~active'[c]
                /\ pc'[c] = "closing"
           /\ ( /\ u \in AllowList
                /\ ~\E r \in Conns \ {c} : IsActive(r) /\ username[r] = u )
              => pc'[c] = "activate" /\ name'[c] = u

C3_State ==
    \A c \in Conns :
        /\ pc[c] = "welcome" => active[c] /\ c \in registered
        /\ active[c] =>
              /\ username[c] = TrimSpace(inLine[c])
              /\ username[c] \in AllowList
              /\ Count(out[c], C3_WelcomeLine(username[c])) =
                     IF pc[c] = "welcome" THEN 0 ELSE 1
        /\ Count(out[c], C3_RejectLine) > 0 =>
              ~active[c] /\ ~connOpen[c] /\ pc[c] \in {"closing", "done"}

C3_HandshakeDeterminism == [][C3_Step]_vars /\ []C3_State

C3_Witness ==
    \E c, d \in Conns :
        /\ active[c] /\ Count(out[c], C3_WelcomeLine(<<"a">>)) = 1
        /\ Count(out[d], C3_RejectLine) = 1 /\ pc[d] = "done"

\* C4: a handshake line that is empty after trimming, or 50 or more
\* characters long, is answered with BAD_USERNAME and its reason and nothing
\* else (no NOT_ALLOWED, no Welcome), and the connection is closed.
C4_EmptyLine == <<"BAD_USERNAME", NL, "Username cannot be empty.", NL>>
C4_LongLine == <<"BAD_USERNAME", NL, "Username too long.", NL>>

C4_BadUsername ==
    \A c \in Conns :
        LET u == TrimSpace(inLine[c]) IN
        (inLine[c] # <<>> /\ name[c] = <<>> /\ (u = <<>> \/ Len(u) >= 50))
        => /\ out[c] = << <<"REQ_USERNAME", NL>>,
                          IF u = <<>> THEN C4_EmptyLine ELSE C4_LongLine >>
           /\ ~active[c]
           /\ ~connOpen[c]
           /\ pc[c] \in {"closing", "done"}

C4_Witness ==
    \E c, d \in Conns :
        /\ out[c] = << <<"REQ_USERNAME", NL>>, C4_EmptyLine >>
        /\ out[d] = << <<"REQ_USERNAME", NL>>, C4_LongLine >>
        /\ Len(TrimSpace(inLine[d])) = 50


\* Line l carries the text t.
Mentions(l, t) == \E i \in 1..(Len(l) - Len(t) + 1) : SubSeq(l, i, i + Len(t) - 1) = t

\* The lines of a stream that carry the text t, in order.
Mentioning(stream, t) == SelectSeq(stream, LAMBDA l : Mentions(l, t))

\* A stream without the block of the history replay (marker to marker).
Live(stream) ==
    LET b == {i \in DOMAIN stream : stream[i] = <<"--- Recent Chat History ---", NL>>}
        e == {i \in DOMAIN stream : stream[i] = <<"--- End of History ---", NL>>}
    IN IF b = {} \/ e = {} THEN stream
       ELSE LET i == CHOOSE k \in b : TRUE
                j == CHOOSE k \in e : TRUE
            IN SubSeq(stream, 1, i - 1) \o SubSeq(stream, j + 1, Len(stream))

\* In this step the handler of c, in its message loop, reads the line l.
ReadsLine(c, l) == pc[c] = "loop" /\ inLine'[c] = l /\ inLine[c] # l

Names == {<<"a">>, <<"b">>, <<"c">>, <<"e">>}
Numbers == 1..MaxMsgs

\* C5: while the broadcast of a global line of session c goes on (the
\* registry is locked against change), a session that is not Active in the
\* registry has not been sent 'A: t', one that is Active has been sent it at
\* most once, and once the loop is through every Active session whose
\* connection is open, c included, has been sent it exactly once.  (Copies
\* that a joining session is shown in its history replay are not counted.)
C5_Line(c) == username[c] \o <<": ">> \o inLine[c]

C5_GlobalBroadcast ==
    \A c \in Conns :
        ctx[c] = "global" =>
            \A r \in Conns :
                LET n == Count(Live(out[r]), C5_Line(c)) IN
                /\ n <= 1
                /\ pc[c] = "bcast_loop" =>
                      /\ ~IsActive(r) => n = 0
                      /\ r \in todo[c] => n = 0
                      /\ (IsActive(r) /\ connOpen[r] /\ todo[c] = {}) => n = 1

C5_Witness ==
    \E c \in Conns :
        /\ ctx[c] = "global" /\ pc[c] = "bcast_loop" /\ todo[c] = {}
        /\ \A r \in Conns : IsActive(r) /\ Count(out[r], C5_Line(c)) = 1

\* C6: a PRIVMSG of session c to a name B that an Active session holds is
\* delivered; after the two sends the recipient has '(DM from A): t' (if its
\* connection is still open), c has '(DM to B): t', each once, and no other
\* line with the text t has reached any session.
C6_ToRecipient(a, t) == <<"(DM from ">> \o a \o <<"): ">> \o t \o <<NL>>
C6_ToSender(b, t) == <<"(DM to ">> \o b \o <<"): ">> \o t \o <<NL>>

C6_Step ==
    \A c \in Conns : \A b \in Names : \A n \in Numbers :
        ( /\ ReadsLine(c, DMLine(b, TextOf(n)))
          /\ \E r \in Conns : IsActive(r) /\ username[r] = b )
        => /\ pc'[c] = "dm_rcpt"
           /\ IsActive(rcpt'[c]) /\ username[rcpt'[c]] = b
           /\ out' = out

C6_State ==
    \A c \in Conns : \A b \in Names : \A n \in Numbers :
        ( /\ inLine[c] = DMLine(b, TextOf(n))
          /\ ctx[c] = "dm" /\ pc[c] \in {"log", "hist"} )
        => LET r == rcpt[c]
               toR == C6_ToRecipient(username[c], TextOf(n))
               toS == C6_ToSender(b, TextOf(n))
           IN /\ username[r] = b
              /\ \A x \in Conns :
                    Mentioning(out[x], TextOf(n)) \in
                        IF x = r /\ x = c THEN { <<toR, toS>> }
                        ELSE IF x = r
                        THEN IF connOpen[r] THEN { <<toR>> } ELSE { <<toR>>, <<>> }
                        ELSE IF x = c THEN { <<toS>> }
                        ELSE { <<>> }

\* Outside the history replay a line with the text of a direct message is
\* only ever the recipient's line at a session of the recipient's name or
\* the sender's line at the sender.
C6_Isolation ==
    \A c \in Conns : \A b \in Names : \A n \in Numbers :
        inLine[c] = DMLine(b, TextOf(n)) =>
            \A x \in Conns :
                LET seen == Mentioning(Live(out[x]), TextOf(n)) IN
                \A i \in DOMAIN seen :
                    \/ x = c /\ seen[i] = C6_ToSender(b, TextOf(n))
                    \/ /\ x = rcpt[c] /\ username[x] = b
                       /\ seen[i] = C6_ToRecipient(username[c], TextOf(n))

C6_DirectMessage == [][C6_Step]_vars /\ [](C6_State /\ C6_Isolation)

C6_Witness ==
    \E c \in Conns :
        /\ ctx[c] = "dm" /\ pc[c] = "log" /\ rcpt[c] # c
        /\ \A x \in Conns : IsActive(x)
        /\ Mentioning(out[rcpt[c]], text[c]) =
               << C6_ToRecipient(username[c], text[c]) >>
        /\ Mentioning(out[c], text[c]) = << C6_ToSender(arg[c], text[c]) >>

\* C7: a well-formed PRIVMSG to a name that no Active session holds gets the
\* sender, and nobody else, "System: User '<name>' not found or is offline.";
\* history and log stay as they are and the sender stays in its loop.
C7_Reply(b) == <<"System: User '">> \o b \o <<"' not found or is offline.", NL>>

C7_Step ==
    \A c \in Conns : \A b \in Names : \A n \in Numbers :
        ( /\ ReadsLine(c, DMLine(b, TextOf(n)))
          /\ ~\E r \in Conns : IsActive(r) /\ username[r] = b )
        => /\ out' = [out EXCEPT ![c] = Append(@, C7_Reply(b))]
           /\ chatHistory' = chatHistory
           /\ chatLog' = chatLog
           /\ pc'[c] = "loop"

C7_UnknownRecipient == [][C7_Step]_vars

C7_Witness ==
    \E c \in Conns : \E b \in {<<"b">>, <<"e">>} :
        /\ Count(out[c], C7_Reply(b)) = 1
        /\ pc[c] = "loop" /\ nmsgs = 1
        /\ Len(chatLog) = 2


\* C8: group f lists a and b; when a, the only Active member, sends
\* 'GROUPMSG f t', the loop over the members delivers nothing to anyone
\* (a gets no '(#f from a): t' line), the one line delivered is a's
\* confirmation '(To #f): t', and the log has exactly one GROUPMSG entry.
C8_OnlyMember(c) ==
    /\ ctx[c] = "gm" /\ arg[c] = <<"f">> /\ username[c] = <<"a">>
    /\ groups[<<"f">>] = << <<"a">>, <<"b">> >>
    /\ ~\E r \in Conns : IsActive(r) /\ username[r] = <<"b">>

C8_Step ==
    \A c \in Conns :
        ( /\ C8_OnlyMember(c)
          /\ pc[c] \in {"gm_members", "gm_confirm"}
          /\ pc'[c] # pc[c] \/ midx'[c] # midx[c] )
        => out' = IF pc[c] = "gm_confirm"
                  THEN [out EXCEPT ![c] =
                           Append(@, <<"(To #">> \o arg[c] \o <<"): ">>
                                         \o text[c] \o <<NL>>)]
                  ELSE out

C8_Logged ==
    \A c \in Conns :
        (ctx[c] = "gm" /\ pc[c] \in {"hist", "loop"}) =>
            Len(SelectSeq(chatLog, LAMBDA l : Mentions(l, <<"GROUPMSG to #">>))) = 1

C8_GroupRouting == [][C8_Step]_vars /\ []C8_Logged

\* C9: the text of a group message reaches only sessions of members of the
\* group (and the session that sent it): no session with another username
\* is ever sent a line with that text, the history replay included.
C9_GroupContent ==
    \A x \in Conns : \A g \in DOMAIN groups : \A n \in Numbers :
        ( /\ \E c \in Conns : inLine[c] = GMLine(g, TextOf(n))
          /\ \E i \in DOMAIN out[x] : Mentions(out[x][i], TextOf(n)) )
        => \/ \E k \in DOMAIN groups[g] : groups[g][k] = username[x]
           \/ inLine[x] = GMLine(g, TextOf(n))

\* C10: a well-formed GROUPMSG for a group that is not in the table gets
\* the sender, and nobody else, "System: Group '#<name>' not found.";
\* history and log stay as they are and the sender stays in its loop.
C10_Reply(g) == <<"System: Group '#">> \o g \o <<"' not found.", NL>>

C10_Step ==
    \A c \in Conns : \A g \in {<<"f">>, <<"z">>} : \A n \in Numbers :
        ( /\ ReadsLine(c, GMLine(g, TextOf(n)))
          /\ g \notin DOMAIN groups )
        => /\ out' = [out EXCEPT ![c] = Append(@, C10_Reply(g))]
           /\ chatHistory' = chatHistory
           /\ chatLog' = chatLog
           /\ pc'[c] = "loop"

C10_UnknownGroup == [][C10_Step]_vars

C10_Witness ==
    \E c \in Conns :
        /\ Count(out[c], C10_Reply(<<"z">>)) = 1
        /\ pc[c] = "loop" /\ nmsgs = 1
        /\ Len(chatLog) = 2


\* C11: when the departure of an Active session named U has been broadcast,
\* every session still Active (with its connection open) has been sent
\* 'System: U has left the chat.' exactly once; and once a session named U
\* has been removed from the registry, a handshake that presents U is let
\* through to activation (it is not answered 'already in use').
C11_LeaveLine(u) == <<"System: ">> \o u \o <<" has left the chat.", NL>>

C11_LeftOnce ==
    \A c \in Conns :
        (ctx[c] = "leave" /\ pc[c] = "bcast_loop" /\ todo[c] = {}) =>
            \A r \in Conns :
                (IsActive(r) /\ connOpen[r]) =>
                    Count(Live(out[r]), C11_LeaveLine(username[c])) = 1

C11_NameFree ==
    \A c, d \in Conns :
        ( /\ ReadsUsername(c)
          /\ active[d] /\ d \notin registered
          /\ TrimSpace(inLine'[c]) = username[d] )
        => /\ pc'[c] = "activate"
           /\ out' = out

C11_Departure == [][C11_NameFree]_vars /\ []C11_LeftOnce


\* In this step the goroutine of c moves on.
Moves(c) == pc'[c] # pc[c] \/ todo'[c] # todo[c]

\* C12: after its history replay the handler of a session that joined as U
\* appends 'System: U has joined the chat.' once to the log, then once to
\* the history, then sends it once to every other Active session of the
\* registry and not to the joining session; these steps change nothing else.
C12_JoinLine(u) == <<"System: ">> \o u \o <<" has joined the chat.", NL>>

C12_Step ==
    \A c \in Conns :
        (ctx[c] = "join" /\ Moves(c)) =>
            LET line == C12_JoinLine(name[c]) IN
            CASE pc[c] = "log" ->
                   /\ chatLog' = Append(chatLog, <<"[", "<timestamp>", "] ">> \o line)
                   /\ chatHistory' = chatHistory /\ out' = out
                   /\ pc'[c] = "hist"
              [] pc[c] = "hist" ->
                   /\ chatHistory' = Append(chatHistory, line)
                   /\ chatLog' = chatLog /\ out' = out
                   /\ pc'[c] = "bcast"
              [] pc[c] = "bcast" ->
                   /\ todo'[c] = {r \in Conns \ {c} : IsActive(r)}
                   /\ chatHistory' = chatHistory /\ chatLog' = chatLog /\ out' = out
                   /\ pc'[c] = "bcast_loop"
              [] pc[c] = "bcast_loop" ->
                   /\ chatHistory' = chatHistory /\ chatLog' = chatLog
                   /\ \/ todo[c] = {} /\ out' = out /\ pc'[c] = "loop"
                      \/ \E r \in todo[c] :
                           /\ r # c /\ IsActive(r)
                           /\ todo'[c] = todo[c] \ {r}
                           /\ pc'[c] = "bcast_loop"
                           /\ out' = IF connOpen[r]
                                     THEN [out EXCEPT ![r] = Append(@, line)]
                                     ELSE out
              [] OTHER -> TRUE

\* While the join of c is under way the registry does not lose an Active
\* session that the broadcast has yet to visit, and c is not among them.
C12_State ==
    \A c \in Conns :
        (ctx[c] = "join" /\ pc[c] = "bcast_loop") =>
            /\ c \notin todo[c]
            /\ \A r \in todo[c] : IsActive(r)

C13_Replay(hist) ==
    IF hist = <<>> THEN <<>>
    ELSE << <<"--- Recent Chat History ---", NL>> >> \o hist
             \o << <<"--- End of History ---", NL>> >>

C13_Step ==
    \A c \in Conns :
        Moves(c) =>
            CASE pc[c] = "welcome" ->
                   /\ out' = [out EXCEPT ![c] =
                                 Append(@, <<"Welcome, ">> \o name[c] \o <<"!", NL>>)]
                   /\ pc'[c] = "replay"
                   /\ chatHistory' = chatHistory
              [] pc[c] = "replay" ->
                   /\ out' = [out EXCEPT ![c] = @ \o C13_Replay(chatHistory)]
                   /\ chatHistory' = chatHistory
                   /\ pc'[c] = "log"
              [] OTHER -> TRUE

C13_NoOwnJoin ==
    \A c \in Conns :
        (\A d \in Conns \ {c} : name[d] # name[c]) =>
            Count(out[c], <<"System: ">> \o name[c] \o <<" has joined the chat.", NL>>) = 0

C13_WelcomeAndReplay == [][C13_Step]_vars /\ []C13_NoOwnJoin

C13_Witness ==
    /\ out[1] = << <<"REQ_USERNAME", NL>>, <<"Welcome, ", "a", "!", NL>>,
                   <<"System: ", "b", " has joined the chat.", NL>> >>
    /\ out[2] = << <<"REQ_USERNAME", NL>>, <<"Welcome, ", "b", "!", NL>>,
                   <<"--- Recent Chat History ---", NL>>,
                   <<"System: ", "a", " has joined the chat.", NL>>,
                   <<"--- End of History ---", NL>> >>
    /\ chatHistory = << <<"System: ", "a", " has joined the chat.", NL>>,
                        <<"System: ", "b", " has joined the chat.", NL>> >>


\* C14: the history never holds more than 20 lines, and every change of it
\* appends one line and, when that makes 21, drops the oldest: so it is the
\* last min(20, k) of the k lines appended, in the order of the appends.
\* With a alone sending and nobody leaving, the appends are in the order of
\* the log, and the history is the last 20 lines of the log.
C14_LastLogged ==
    LET k == Len(chatLog)
        from == IF k > 20 THEN k - 20 ELSE 0
    IN [i \in 1..(k - from) |-> SubSeq(chatLog[from + i], 4, Len(chatLog[from + i]))]

C14_Step ==
    chatHistory' # chatHistory =>
        LET line == chatHistory'[Len(chatHistory')] IN
        /\ Len(chatHistory') > 0
        /\ line[Len(line)] = NL
        /\ chatHistory' = IF Len(chatHistory) < 20
                          THEN Append(chatHistory, line)
                          ELSE Append(Tail(chatHistory), line)

C14_State ==
    /\ Len(chatHistory) <= 20
    /\ (nerrs = 0 /\ pc[1] # "hist") => chatHistory = C14_LastLogged

C14_HistoryBound == [][C14_Step]_vars /\ []C14_State

C14_Witness ==
    /\ nmsgs = 23 /\ nerrs = 0 /\ pc[1] = "loop"
    /\ Len(chatLog) = 25
    /\ Len(chatHistory) = 20
    /\ chatHistory[1] = <<"a", ": ", "h", " ", "4", NL>>
    /\ chatHistory[20] = <<"a", ": ", "h", " ", "23", NL>>


\* C15: the steps by which a connection that never became Active is closed
\* (the rejection of its username or a failed read of it, then the cleanup)
\* write to no other connection, leave history and log as they are, change
\* no other session's username, Active flag or registration, and end the
\* handler without a departure notice.
C15_Step ==
    \A c \in Conns :
        ( /\ ~active[c]
          /\ pc'[c] # pc[c]
          /\ pc'[c] \in {"closing", "done"} )
        => /\ chatHistory' = chatHistory
           /\ chatLog' = chatLog
           /\ \A r \in Conns \ {c} :
                 /\ out'[r] = out[r]
                 /\ username'[r] = username[r]
                 /\ active'[r] = active[r]
                 /\ (r \in registered') = (r \in registered)
           /\ ~active'[c]
           /\ pc[c] = "closing" => pc'[c] = "done" /\ out' = out

C15_State ==
    /\ \A c \in Conns : (pc[c] = "closing" /\ ~active[c]) => ~connOpen[c]
    /\ \A c \in Conns : (~active[c]) => pc[c] \in {"new", "await", "activate", "closing", "done"}
    /\ \A r \in Conns : \A i \in DOMAIN out[r] :
          out[r][i] # <<"System: ", "[unauthenticated]", " has left the chat.", NL>>

C15_ClosedBeforeActive == [][C15_Step]_vars /\ []C15_State

C15_Witness ==
    /\ pc[3] = "done" /\ ~active[3] /\ 3 \notin registered
    /\ Len(out[3]) = 2
    /\ IsActive(1) /\ IsActive(2)
    /\ Len(out[1]) = 3 /\ Len(out[2]) = 5
    /\ Len(chatHistory) = 2 /\ Len(chatLog) = 2


\* C16: whenever one of the router's error replies (invalid DM format,
\* invalid GM format, user not found, group not found) is written, it is
\* written by the handler that has just read the line, to its own
\* connection and to no other; the step leaves history, log, registry,
\* usernames and Active flags as they are and the handler in its loop; no
\* error reply is ever found in the history or the log.
C16_IsError(line) ==
    \/ line = <<"System: Invalid DM format. Use: PRIVMSG <user> <message>", NL>>
    \/ line = <<"System: Invalid GM format. Use: GROUPMSG <group> <message>", NL>>
    \/ /\ Len(line) >= 3
       /\ line[1] = "System: User '"
       /\ SubSeq(line, Len(line) - 1, Len(line)) = <<"' not found or is offline.", NL>>
    \/ /\ Len(line) >= 3
       /\ line[1] = "System: Group '#"
       /\ SubSeq(line, Len(line) - 1, Len(line)) = <<"' not found.", NL>>

C16_Step ==
    \A r \in Conns :
        (\E i \in (Len(out[r]) + 1)..Len(out'[r]) : C16_IsError(out'[r][i])) =>
            /\ pc[r] = "loop" /\ pc'[r] = "loop"
            /\ nmsgs' = nmsgs + 1
            /\ IsActive(r)
            /\ Len(out'[r]) = Len(out[r]) + 1
            /\ \A x \in Conns \ {r} : out'[x] = out[x]
            /\ chatHistory' = chatHistory
            /\ chatLog' = chatLog
            /\ registered' = registered
            /\ active' = active
            /\ username' = username
            /\ connOpen' = connOpen

C16_State ==
    /\ \A i \in DOMAIN chatHistory : ~C16_IsError(chatHistory[i])
    /\ \A i \in DOMAIN chatLog :
          ~C16_IsError(SubSeq(chatLog[i], 4, Len(chatLog[i])))

C16_ErrorReplies == [][C16_Step]_vars /\ []C16_State

C16_Witness ==
    \E c \in Conns :
        /\ pc[c] = "loop" /\ IsActive(c)
        /\ Count(out[c], <<"System: Invalid GM format. Use: GROUPMSG <group> <message>", NL>>) = 1
        /\ \A x \in Conns : IsActive(x)


\* C17: a line that begins with 'PRIVMSG ' (resp. 'GROUPMSG ') and lacks
\* the recipient (resp. group) or the text is answered with the format error
\* to the sender alone; nothing else is written, history and log stay as
\* they are, and the handler stays in its loop (the line is not passed on as
\* a global message).
C17_BadDM ==
    { <<"P", "R", "I", "V", "M", "S", "G", " ", NL>>,
      <<"P", "R", "I", "V", "M", "S", "G", " ", "b", NL>>,
      <<"P", "R", "I", "V", "M", "S", "G", " ", " ", "h", " ", "1", NL>> }

C17_BadGM ==
    { <<"G", "R", "O", "U", "P", "M", "S", "G", " ", NL>>,
      <<"G", "R", "O", "U", "P", "M", "S", "G", " ", "f", NL>>,
      <<"G", "R", "O", "U", "P", "M", "S", "G", " ", " ", "h", " ", "1", NL>> }

C17_Reply(l) ==
    IF l \in C17_BadDM
    THEN <<"System: Invalid DM format. Use: PRIVMSG <user> <message>", NL>>
    ELSE <<"System: Invalid GM format. Use: GROUPMSG <group> <message>", NL>>

C17_Step ==
    \A c \in Conns : \A l \in C17_BadDM \cup C17_BadGM :
        ReadsLine(c, l) =>
            /\ out' = [out EXCEPT ![c] = Append(@, C17_Reply(l))]
            /\ chatHistory' = chatHistory
            /\ chatLog' = chatLog
            /\ pc'[c] = "loop"

C17_Classification == [][C17_Step]_vars


\* C18: an empty line of an Active session is not treated as a global
\* message: no connection is ever sent a line '<sender>: ' with nothing
\* after it, and neither the history nor the log ever holds one.
C18_EmptyGlobal(line) == Len(line) = 3 /\ line[2] = ": " /\ line[3] = NL

C18_EmptyLine ==
    /\ \A r \in Conns : \A i \in DOMAIN out[r] : ~C18_EmptyGlobal(out[r][i])
    /\ \A i \in DOMAIN chatHistory : ~C18_EmptyGlobal(chatHistory[i])
    /\ \A i \in DOMAIN chatLog :
          ~C18_EmptyGlobal(SubSeq(chatLog[i], 4, Len(chatLog[i])))


\* C19: the log only grows, one entry at a time at its end; a routed command
\* has exactly one entry once its handler has logged it and none before:
\* '<sender>: <text>' for a global line, 'DM from <sender> to <recipient>:
\* <text>' for a delivered DM, 'GROUPMSG to #<group> from <sender>: <text>'
\* for a message to an existing group; and the log has no more command
\* entries than lines were read.
C19_Stamp == <<"[", "<timestamp>", "] ">>

C19_Entry(c) ==
    IF ctx[c] = "global" THEN C19_Stamp \o username[c] \o <<": ">> \o text[c]
    ELSE IF ctx[c] = "dm"
    THEN C19_Stamp \o <<"DM from ">> \o username[c] \o <<" to ">> \o arg[c]
             \o <<": ">> \o text[c] \o <<NL>>
    ELSE C19_Stamp \o <<"GROUPMSG to #">> \o arg[c] \o <<" from ">> \o username[c]
             \o <<": ">> \o text[c] \o <<NL>>

C19_IsNotice(entry) ==
    /\ Len(entry) = 7
    /\ entry[4] = "System: "
    /\ entry[6] \in {" has joined the chat.", " has left the chat."}

C19_Step ==
    \/ chatLog' = chatLog
    \/ /\ Len(chatLog') = Len(chatLog) + 1
       /\ SubSeq(chatLog', 1, Len(chatLog)) = chatLog

C19_State ==
    /\ \A c \in Conns :
          ctx[c] \in {"global", "dm", "gm"} =>
              Count(chatLog, C19_Entry(c)) =
                  IF pc[c] \in {"log", "dm_rcpt", "dm_sender", "gm_members", "gm_confirm"}
                  THEN 0 ELSE 1
    /\ Cardinality({i \in DOMAIN chatLog : ~C19_IsNotice(chatLog[i])}) <= nmsgs

C20_OverWs(c) ==
    pc[c] \in {"ws_await", "ws_replay", "ws_log", "ws_hist", "ws_bcast",
               "ws_loop", "ws_closing"}

C20_Receives(r) ==
    connOpen[r] /\ \/ IsActive(r) /\ pc[r] = "loop"
                   \/ active[r] /\ pc[r] = "ws_loop"

C20_TransportIndependent ==
    /\ \A r \in Conns : \A i \in DOMAIN out[r] :
          /\ out[r][i] # <<"System: DM processing not fully implemented for WS yet.", NL>>
          /\ out[r][i] # <<"System: GroupMSG processing not fully implemented for WS yet.", NL>>
    /\ \A c \in Conns :
          (ctx[c] = "global" /\ pc[c] \in {"loop", "ws_loop"}) =>
              \A r \in Conns :
                  C20_Receives(r) =>
                      \E i \in DOMAIN out[r] :
                          out[r][i] = username[c] \o <<": ">> \o EnsureNL(inLine[c])

\* C21: while a WebSocket session is Active under a username, a handshake of
\* any other connection, over TCP or over WebSocket, that presents this
\* username is answered with BAD_USERNAME ("Username already in use.") and
\* does not make that connection Active.
C21_WsActive(x) ==
    /\ active[x] /\ connOpen[x]
    /\ pc[x] \in {"ws_replay", "ws_log", "ws_hist", "ws_bcast", "ws_loop"}

C21_InUse == <<"BAD_USERNAME", NL, "Username already in use.", NL>>

C21_Step ==
    \A c \in Conns : \A x \in Conns \ {c} :
        ( /\ C21_WsActive(x)
          /\ pc[c] \in {"await", "ws_await"}
          /\ inLine'[c] # inLine[c]
          /\ TrimSpace(inLine'[c]) = username[x] ) =>
            /\ out'[c] = Append(out[c], C21_InUse)
            /\ pc'[c] \in {"closing", "done"}
            /\ ~active'[c]

C21_CrossTransport == [][C21_Step]_vars

\* C22: the process is ended by an error only where the chat log file cannot
\* be opened at start-up: every step into "fatal" is the step of os.OpenFile,
\* and no other failure (of a configuration file, of net.Listen, of Accept,
\* of a read of a session) ends the process.
C22_Step == (main' = "fatal" /\ main # "fatal") => main = "openlog"

C22_OnlyLogFileFatal == [][C22_Step]_vars

\* C23: every entry of the session registry is an Active session; a session
\* that is still in its handshake (active = false) is not in the registry.
C23_RegisteredActive == \A c \in registered : active[c]

\* C24: nothing is written to the transport of a session that has been
\* removed from the session registry, whichever goroutine tries to: a DM
\* whose recipient was found in the registry and was removed before the send
\* does not reach it.
C24_Step ==
    \A r \in Conns :
        (r \notin registered /\ pc[r] # "new") => out'[r] = out[r]

C24_NoWriteAfterRemoval == [][C24_Step]_vars

\* The sender of a DM is past its send to a recipient that is no longer in
\* the registry and did not get the line.
C24_Witness ==
    \E c \in Conns : \E r \in Conns \ {c} :
        /\ pc[c] = "dm_sender" /\ rcpt[c] = r
        /\ r \notin registered
        /\ Count(out[r], <<"(DM from ">> \o username[c] \o <<"): ">> \o text[c] \o <<NL>>) = 0

\* C25: at no time are two goroutines inside sendToClient of the same
\* client: a write and its flush are over before the next write to that
\* client's transport begins.
C25_OneWriter == \A r \in Conns : Cardinality(writing[r]) <= 1

\* C26: the line a handler appends to the history buffer for the event in
\* hand is a line it delivers for that event: for a DM '(DM from <sender>):
\* <text>' or '(DM to <recipient>): <text>', for a group message '(#<group>
\* from <sender>): <text>' or '(To #<group>): <text>', for a global line
\* '<sender>: <text>', for a join or a departure the System line.
C26_Delivered(c) ==
    CASE ctx[c] = "dm" ->
           { <<"(DM from ">> \o username[c] \o <<"): ">> \o text[c] \o <<NL>>,
             <<"(DM to ">> \o arg[c] \o <<"): ">> \o text[c] \o <<NL>> }
      [] ctx[c] = "gm" ->
           { <<"(#">> \o arg[c] \o <<" from ">> \o username[c] \o <<"): ">> \o text[c] \o <<NL>>,
             <<"(To #">> \o arg[c] \o <<"): ">> \o text[c] \o <<NL>> }
      [] ctx[c] = "global" -> { username[c] \o <<": ">> \o text[c] }
      [] ctx[c] = "join" -> { <<"System: ">> \o name[c] \o <<" has joined the chat.", NL>> }
      [] ctx[c] = "leave" -> { <<"System: ">> \o username[c] \o <<" has left the chat.", NL>> }

C26_Step ==
    \A c \in Conns :
        (pc[c] = "hist" /\ pc'[c] # "hist") =>
            /\ chatHistory' # <<>>
            /\ chatHistory'[Len(chatHistory')] \in C26_Delivered(c)

C26_HistoryAsDelivered == [][C26_Step]_vars

\* C27: a write to a recipient that fails (its connection is closed) changes
\* nothing but the operator's log: the recipient stays in the registry and
\* Active until its own handler's cleanup removes it, the write is not tried
\* again, and the delivery goes on to every other recipient it was meant for
\* (the rest of the broadcast loop, the rest of the group's members, the
\* confirmation to the sender of a DM or group message).
C27_Line(c) ==
    CASE ctx[c] = "global" -> username[c] \o <<": ">> \o text[c]
      [] ctx[c] = "join" -> <<"System: ">> \o name[c] \o <<" has joined the chat.", NL>>
      [] ctx[c] = "leave" -> <<"System: ">> \o username[c] \o <<" has left the chat.", NL>>

C27_Same == registered' = registered /\ active' = active /\ connOpen' = connOpen

C27_Broadcast(c) ==
    /\ (pc[c] = "bcast_loop" /\ todo'[c] # todo[c]) =>
          \E r \in todo[c] :
              /\ todo'[c] = todo[c] \ {r}
              /\ pc'[c] = "bcast_loop"
              /\ out'[r] = IF connOpen[r] THEN Append(out[r], C27_Line(c)) ELSE out[r]
              /\ \A x \in Conns \ {r} : out'[x] = out[x]
              /\ C27_Same
    /\ (pc[c] = "bcast_loop" /\ pc'[c] # "bcast_loop") => todo[c] = {}

C27_Direct(c) ==
    /\ (pc[c] = "dm_rcpt" /\ pc'[c] # "dm_rcpt") =>
          /\ pc'[c] = "dm_sender"
          /\ out'[rcpt[c]] =
                IF connOpen[rcpt[c]]
                THEN Append(out[rcpt[c]], <<"(DM from ">> \o username[c] \o <<"): ">> \o text[c] \o <<NL>>)
                ELSE out[rcpt[c]]
          /\ C27_Same
    /\ (pc[c] = "dm_sender" /\ pc'[c] # "dm_sender") =>
          /\ out'[c] =
                IF connOpen[c]
                THEN Append(out[c], <<"(DM to ">> \o arg[c] \o <<"): ">> \o text[c] \o <<NL>>)
                ELSE out[c]
          /\ C27_Same

C27_Group(c) ==
    /\ (pc[c] = "gm_members" /\ midx'[c] # midx[c]) =>
          /\ midx'[c] = midx[c] + 1
          /\ pc'[c] = IF midx[c] = Len(groups[arg[c]]) THEN "gm_confirm" ELSE "gm_members"
          /\ \A r \in Conns : ~connOpen[r] => out'[r] = out[r]
          /\ C27_Same
    /\ (pc[c] = "gm_confirm" /\ pc'[c] # "gm_confirm") =>
          /\ out'[c] =
                IF connOpen[c]
                THEN Append(out[c], <<"(To #">> \o arg[c] \o <<"): ">> \o text[c] \o <<NL>>)
                ELSE out[c]
          /\ C27_Same

\* Only the cleanup of its own handler takes a client out of the registry,
\* and nothing makes an Active client inactive.
C27_Removal ==
    \A r \in Conns :
        /\ (r \in registered /\ r \notin registered') =>
               pc[r] = "closing" /\ pc'[r] # "closing"
        /\ active[r] => active'[r]

C27_Step == C27_Removal /\ \A c \in Conns : C27_Broadcast(c) /\ C27_Direct(c) /\ C27_Group(c)

C27_FailedWrite == [][C27_Step]_vars

\* The broadcast of a's global line is over: b, whose connection is closed
\* but which is still registered and Active, did not get the line, a did.
C27_Witness ==
    /\ pc[1] = "loop" /\ ctx[1] = "global"
    /\ 2 \in registered /\ active[2] /\ ~connOpen[2]
    /\ Count(out[2], <<"a", ": ", "h", " ", "1", NL>>) = 0
    /\ Count(out[1], <<"a", ": ", "h", " ", "1", NL>>) = 1

\* C28: once the read of an Active session has failed, the session is in the
\* end out of the registry, its connection closed, and its leave line in the
\* log and in the history and broadcast; its cleanup takes no other session
\* out of the registry, makes none inactive and moves no other handler.
C28_Left(c) == <<"System: ">> \o username[c] \o <<" has left the chat.", NL>>

C28_Gone(c) ==
    /\ c \notin registered
    /\ ~connOpen[c]
    /\ Count(chatLog, <<"[", "<timestamp>", "] ">> \o C28_Left(c)) >= 1
    /\ Count(chatHistory, C28_Left(c)) >= 1
    /\ pc[c] = "done" /\ todo[c] = {}

C28_Step ==
    \A c \in Conns :
        (pc[c] = "closing" /\ pc'[c] # "closing") =>
            /\ registered' = registered \ {c}
            /\ active' = active
            /\ \A x \in Conns \ {c} : pc'[x] = pc[x] /\ connOpen'[x] = connOpen[x]

C28_Eventually ==
    \A c \in Conns : (pc[c] = "closing" /\ IsActive(c)) ~> C28_Gone(c)

C29_Step ==
    /\ (main = "err_temporary" /\ main' # main) => main' = "sleep"
    /\ (main = "sleep" /\ main' # main) => main' = "accept"
    /\ (main = "err_closed" /\ main' # main) => main' = "returned"
    /\ main = "returned" => (main' = "returned" /\ registered' \subseteq registered)
    /\ \A c \in Conns :
          (pc[c] = "new" /\ pc'[c] # "new") =>
              /\ main = "accept" /\ main' = "accept"
              /\ pc'[c] = "await" /\ c \in registered' /\ connOpen'[c]
              /\ \A x \in Conns \ {c} : pc'[x] = pc[x]

C29_Retried == (main = "err_temporary") ~> (main = "accept")

C29_AcceptLoop == [][C29_Step]_vars /\ C29_Retried

\* The listener sleeps after a temporary error while the handler of a
\* connection accepted before is in its message loop.
C29_Witness == main = "sleep" /\ 1 \in registered /\ pc[1] = "loop"

\* C30: with the first session waiting for its username for ever, every
\* later connection is still accepted, completes its handshake and reaches
\* its message loop, and a global line of one of them is stored and
\* delivered; the waiting session holds no lock meanwhile.
C30_Sent(c) ==
    \E u \in {<<"a">>, <<"b">>, <<"c">>} :
        Count(out[c], u \o <<": ", "h", " ", "1", NL>>) >= 1

C30_Served ==
    /\ pc[Silent] = "await"
    /\ \A c \in Conns \ {Silent} :
          /\ IsActive(c) /\ pc[c] = "loop"
          /\ Count(out[c], <<"Welcome, ">> \o username[c] \o <<"!", NL>>) = 1
    /\ \E c \in Conns \ {Silent} : C30_Sent(c)

C30_NoLock == pc[Silent] = "await" => Silent \notin rlock

C30_NotBlocked == []C30_NoLock /\ <>C30_Served

C30_Witness == C30_Served

\* C31: a log write that fails changes nothing but the operator's log: the
\* handler goes on to the history; and for an event whose entry the log did
\* not get, the history still gets the event, the broadcast still goes to
\* every Active client of the registry, one write each, and the sender
\* stays registered and Active.
C31_Entry(c) ==
    CASE ctx[c] = "global" ->
           <<"[", "<timestamp>", "] ">> \o username[c] \o <<": ">> \o text[c]
      [] ctx[c] = "dm" ->
           <<"[", "<timestamp>", "] ", "DM from ">> \o username[c] \o <<" to ">>
               \o arg[c] \o <<": ">> \o text[c] \o <<NL>>
      [] ctx[c] = "gm" ->
           <<"[", "<timestamp>", "] ", "GROUPMSG to #">> \o arg[c] \o <<" from ">>
               \o username[c] \o <<": ">> \o text[c] \o <<NL>>
      [] ctx[c] = "join" ->
           <<"[", "<timestamp>", "] ", "System: ">> \o name[c]
               \o <<" has joined the chat.", NL>>
      [] ctx[c] = "leave" ->
           <<"[", "<timestamp>", "] ", "System: ">> \o username[c]
               \o <<" has left the chat.", NL>>

\* The event as the history holds it: the log entry without its timestamp.
C31_Stored(c) == SubSeq(C31_Entry(c), 4, Len(C31_Entry(c)))

C31_Lost(c) ==
    /\ ctx[c] \in {"global", "dm", "gm", "join", "leave"}
    /\ pc[c] \in {"hist", "bcast", "bcast_loop"}
    /\ Count(chatLog, C31_Entry(c)) = 0

C31_Step ==
    \A c \in Conns :
        /\ (pc[c] = "log" /\ pc'[c] # "log" /\ chatLog' = chatLog) =>
              /\ pc'[c] = "hist"
              /\ registered' = registered /\ active' = active
              /\ connOpen' = connOpen /\ out' = out
              /\ chatHistory' = chatHistory
        /\ (C31_Lost(c) /\ pc[c] = "hist" /\ pc'[c] # "hist") =>
              /\ chatHistory' # <<>>
              /\ chatHistory'[Len(chatHistory')] = C31_Stored(c)
              /\ Len(chatHistory) < 20 => chatHistory' = Append(chatHistory, C31_Stored(c))
              /\ pc'[c] = IF ctx[c] \in {"dm", "gm"} THEN "loop" ELSE "bcast"
              /\ registered' = registered /\ active' = active
        /\ (C31_Lost(c) /\ pc[c] = "bcast" /\ pc'[c] # "bcast") =>
              /\ pc'[c] = "bcast_loop"
              /\ todo'[c] = {r \in registered : active[r]}
                                \ (IF ctx[c] = "join" THEN {c} ELSE {})
        /\ (C31_Lost(c) /\ pc[c] = "bcast_loop" /\ todo'[c] # todo[c]) =>
              \E r \in todo[c] :
                  /\ todo'[c] = todo[c] \ {r}
                  /\ out'[r] = IF connOpen[r]
                               THEN Append(out[r], C31_Stored(c)) ELSE out[r]
        /\ (C31_Lost(c) /\ pc[c] = "bcast_loop" /\ pc'[c] # "bcast_loop") =>
              todo[c] = {} /\ pc'[c] = (IF ctx[c] = "leave" THEN "done" ELSE "loop")

C31_Sender ==
    \A c \in Conns : (C31_Lost(c) /\ ctx[c] # "leave") => IsActive(c)

C31_LogFailSoft == [][C31_Step]_vars /\ []C31_Sender

\* The log refused a's global line; the line is in the history and was sent
\* to a and to b, and a is back in its message loop.
C31_Witness ==
    /\ pc[1] = "loop" /\ ctx[1] = "global" /\ IsActive(1)
    /\ Count(chatLog, <<"[", "<timestamp>", "] ", "a", ": ", "h", " ", "1", NL>>) = 0
    /\ Count(chatHistory, <<"a", ": ", "h", " ", "1", NL>>) = 1
    /\ Count(out[1], <<"a", ": ", "h", " ", "1", NL>>) = 1
    /\ Count(out[2], <<"a", ": ", "h", " ", "1", NL>>) = 1

\* C32: no member list of the group table holds an empty name or the same
\* name twice, and the handler of a GROUPMSG sends '(#<group> from <sender>):
\* <text>' at most once to any one session.
C32_Members ==
    \A g \in DOMAIN groups :
        \A i, j \in DOMAIN groups[g] :
            /\ groups[g][i] # <<>>
            /\ i # j => groups[g][i] # groups[g][j]

C32_Once ==
    \A c, r \in Conns :
        ctx[c] = "gm" =>
            Count(out[r], <<"(#">> \o arg[c] \o <<" from ">> \o username[c]
                              \o <<"): ">> \o text[c] \o <<NL>>) <= 1

C32_GroupOnce == C32_Members /\ C32_Once

\* C33: whenever no handler stands between its log write and its history
\* append, the history buffer is the last min(N, k) entries of the log (k
\* its length, N the history's capacity) without their timestamps, in the
\* same order.
C33_Strip(entry) == SubSeq(entry, 4, Len(entry))

C33_LastOf(log) ==
    LET k == Len(log)
        n == IF k < 20 THEN k ELSE 20
    IN [i \in 1..n |-> C33_Strip(log[k - n + i])]

C33_Quiet == \A c \in Conns : pc[c] # "hist"

C33_LogHistoryAgree == C33_Quiet => chatHistory = C33_LastOf(chatLog)

\* C34: the text of a direct message is sent to the session that sent it
\* and to sessions of the user it is addressed to, and to no other session
\* in any later state, the history replay of a later login included.
C34_DirectPrivate ==
    \A x, c \in Conns : \A n \in Numbers : \A u \in {UserA, UserB, UserC} :
        ( /\ inLine[c] = DMLine(u, TextOf(n))
          /\ \E i \in DOMAIN out[x] : Mentions(out[x][i], TextOf(n)) )
        => (x = c \/ username[x] = u)

\* C35: a session is sent no line that stems from another session (a global
\* line, a join or leave notice, a DM or group delivery) before its own
\* 'Welcome, <name>!'; and while its history replay goes on the lines after
\* '--- Recent Chat History ---' are the entries of the history buffer sent
\* so far, and with '--- End of History ---' the block is the buffer, entry
\* for entry, between the two markers.
C35_FromOthers(line) ==
    \/ /\ Len(line) = 4 /\ line[1] = "System: "
       /\ line[3] \in {" has joined the chat.", " has left the chat."}
    \/ \E u \in {<<"a">>, <<"b">>, <<"c">>} : HasPrefix(line, u \o <<": ">>)
    \/ line[1] \in {"(DM from ", "(#"}

C35_Welcomed(c, i) ==
    \E j \in 1..(i - 1) : HasPrefix(out[c][j], <<"Welcome, ">>)

C35_BeforeWelcome ==
    \A c \in Conns : \A i \in DOMAIN out[c] :
        C35_FromOthers(out[c][i]) => C35_Welcomed(c, i)

C35_Replaying ==
    \A c \in Conns :
        pc[c] = "replay_loop" =>
            LET n == hidx[c] - 1
                k == Len(out[c])
            IN /\ k >= n + 1
               /\ SubSeq(out[c], k - n, k) =
                      <<<<"--- Recent Chat History ---", NL>>>>
                          \o SubSeq(chatHistory, 1, n)

C35_Replayed ==
    \A c \in Conns :
        (pc[c] = "replay_loop" /\ pc'[c] # "replay_loop") =>
            LET n == Len(chatHistory) + 2
                k == Len(out'[c])
            IN /\ k >= n
               /\ SubSeq(out'[c], k - n + 1, k) =
                      <<<<"--- Recent Chat History ---", NL>>>> \o chatHistory
                          \o <<<<"--- End of History ---", NL>>>>

C35_JoinOrder ==
    [](C35_BeforeWelcome /\ C35_Replaying) /\ [][C35_Replayed]_vars

\* C36: with a recipient whose writes do not return, every other session
\* still gets on: one that has passed the username checks becomes Active,
\* one whose read failed is taken out of the registry, and an event that
\* was logged is appended to the history.
C36_Handshake ==
    \A c \in Conns : (pc[c] = "activate") ~> (c \in registered /\ active[c])

C36_Removed ==
    \A c \in Conns \ {Deaf} : (pc[c] = "closing") ~> (c \notin registered)

C36_Stored ==
    \A c \in Conns \ {Deaf} : (pc[c] = "hist") ~> (pc[c] # "hist")

C36_NotStalled == C36_Handshake /\ C36_Removed /\ C36_Stored

\* C37: no handler holds clientsMutex and chatHistoryMutex at once: it takes
\* the registry lock (to register, to activate, to delete, to look up, to
\* broadcast) only when it does not hold the history lock, and the history
\* lock (to append, to replay) only when it does not hold the registry lock;
\* the cleanup has released the registry lock and is out of the registry
\* when it logs, stores and broadcasts the departure; and whenever a
\* handler has something to do, some handler can take a step.
C37_Order == \A c \in Conns : ~(hlock = c /\ c \in rlock)

C37_Step ==
    \A c \in Conns :
        /\ (c \notin rlock /\ c \in rlock') => (hlock # c /\ hlock' # c)
        /\ (pc[c] \in {"new", "activate", "closing"} /\ pc'[c] # pc[c]) =>
              (hlock # c /\ hlock' # c /\ c \notin rlock /\ rlock = {})
        /\ (hlock # c /\ hlock' = c) => (hlock = NoConn /\ c \notin rlock /\ c \notin rlock')
        /\ (pc[c] = "hist" /\ pc'[c] # "hist") => (hlock = NoConn /\ c \notin rlock)

C37_Cleanup ==
    \A c \in Conns :
        (ctx[c] = "leave" /\ pc[c] \in {"log", "hist", "bcast"}) =>
            (c \notin rlock /\ c \notin registered /\ hlock # c)

C37_Handlers ==
    \E c \in Conns :
        \/ Activate(c) \/ SendWelcome(c)
        \/ ReplayLock(c) \/ ReplayLine(c) \/ ReplayUnlock(c)
        \/ LogChat(c) \/ AddHistory(c)
        \/ BroadcastStart(c) \/ (\E r \in Conns : BroadcastSend(c, r)) \/ BroadcastEnd(c)
        \/ Cleanup(c)
        \/ DMSendRecipient(c) \/ DMSendSender(c)
        \/ GroupDeliver(c) \/ GroupConfirm(c)

C37_Busy == \E c \in Conns : pc[c] \notin {"new", "await", "loop", "done"}

C37_NoDeadlock == C37_Busy => ENABLED C37_Handlers

C37_LockOrder ==
    [][C37_Step]_vars /\ [](C37_Order /\ C37_Cleanup /\ C37_NoDeadlock)

\* c replays the history under chatHistoryMutex while a broadcasts under the
\* registry's read lock and b's cleanup waits to append b's departure.
C37_Witness ==
    /\ hlock = 3 /\ pc[3] = "replay_loop"
    /\ 1 \in rlock /\ pc[1] = "bcast_loop"
    /\ pc[2] = "hist" /\ ctx[2] = "leave"

\* C38: the log and the history hold one join entry for every session that
\* became Active and has logged its join, and one leave entry for every
\* such session whose cleanup has logged its departure, and no others; an
\* entry is appended by the handler of a session that is Active, after that
\* session's join entry when it is a message of the session, and a leave
\* entry by a handler that is out of the registry and never reads again.
C38_Join(c) == <<"System: ">> \o username[c] \o <<" has joined the chat.", NL>>
C38_Leave(c) == <<"System: ">> \o username[c] \o <<" has left the chat.", NL>>
C38_Stamped(line) == <<"[", "<timestamp>", "] ">> \o line

C38_Joining(c) ==
    \/ pc[c] \in {"welcome", "replay", "replay_loop"}
    \/ ctx[c] = "join" /\ pc[c] = "log"

C38_Leaving(c) == ctx[c] = "leave" /\ pc[c] # "log"

C38_Sessions(line, stored) ==
    { c \in Conns :
        /\ active[c]
        /\ \/ /\ line = C38_Join(c)
              /\ ~C38_Joining(c)
              /\ stored => ~(ctx[c] = "join" /\ pc[c] = "hist")
           \/ /\ line = C38_Leave(c)
              /\ C38_Leaving(c)
              /\ stored => pc[c] # "hist" }

C38_Notices ==
    { <<"System: ">> \o u \o <<t, NL>> :
        u \in {<<>>, <<"a">>, <<"b">>, <<"c">>},
        t \in {" has joined the chat.", " has left the chat."} }

C38_Counts ==
    \A line \in C38_Notices :
        /\ Count(chatLog, C38_Stamped(line)) = Cardinality(C38_Sessions(line, FALSE))
        /\ Count(chatHistory, line) = Cardinality(C38_Sessions(line, TRUE))

C38_Order ==
    \A c \in Conns :
        /\ ctx[c] \in {"global", "dm", "gm"} =>
              /\ IsActive(c) \/ pc[c] = "closing"
              /\ Count(chatLog, C38_Stamped(C38_Join(c))) >= 1
        /\ ctx[c] = "leave" =>
              /\ c \notin registered /\ active[c]
              /\ pc[c] \in {"log", "hist", "bcast", "bcast_loop", "done"}

C38_Step ==
    chatLog' # chatLog =>
        \E c \in Conns :
            /\ pc[c] = "log" /\ pc'[c] = "hist"
            /\ active[c]
            /\ ctx[c] = "leave" <=> c \notin registered
            /\ Len(chatLog') = Len(chatLog) + 1
            /\ ctx[c] = "join" => chatLog'[Len(chatLog')] = C38_Stamped(C38_Join(c))
            /\ ctx[c] = "leave" => chatLog'[Len(chatLog')] = C38_Stamped(C38_Leave(c))

C39_Messages == {"SendGlobalMessage", "SendDirectMessage", "SendGroupMessage"}

\* The step is a call of the API and op is the function called.
C39_Calls(op) == cl'.ncalls = cl.ncalls + 1 /\ cl'.op = op

\* The call of the step has returned an error and nothing was sent, nor
\* will be: the caller is back, not on its way to sendToServer.
C39_Refused ==
    cl'.ret = "error" /\ cl'.sent = cl.sent /\ cl'.pc["ui"] = "idle"

\* A message call made while not connected or before the login is complete
\* is refused; so is SendUsername made while not connected or after the
\* login is complete; lines go to the server only from a call that was let
\* through, and only while connected; and the login becomes complete only
\* as the reader handles a line that starts with "Welcome, ".
C39_Step ==
    /\ \A op \in C39_Messages :
          C39_Calls(op) /\ ~(cc.isConnected /\ cc.loginPhaseComplete)
              => C39_Refused
    /\ C39_Calls("SendUsername") /\ (~cc.isConnected \/ cc.loginPhaseComplete)
          => C39_Refused
    /\ cl'.sent # cl.sent
          => /\ cl.pc["ui"] = "send"
             /\ cc.isConnected
             /\ cl.op \in C39_Messages \cup {"SendUsername"}
             /\ cl'.sent = Append(cl.sent, EnsureNL(cl.msg))
    /\ cc'.loginPhaseComplete /\ ~cc.loginPhaseComplete
          => /\ cl.pc["reader"] = "handle"
             /\ Len(cl.line) >= 2
             /\ cl.line[1] = "Welcome," /\ cl.line[2] = " "

\* C39: SendGlobalMessage, SendDirectMessage and SendGroupMessage return an
\* error and send nothing unless the client is connected and the login phase
\* is complete; SendUsername returns an error and sends nothing when not
\* connected or after the login phase is complete; the login phase becomes
\* complete only when a line starting with "Welcome, " is received; and
\* IsLoggedIn implies IsConnected in every state.
C39_Gating == [][C39_Step]_vars /\ [](IsLoggedIn => IsConnected)

\* The login is complete, the username that was sent before it is all the
\* server got, and a second SendUsername has just been refused.
C39_Witness ==
    /\ cl.op = "SendUsername" /\ cl.ret = "error" /\ cl.pc["ui"] = "idle"
    /\ cc.isConnected /\ cc.loginPhaseComplete
    /\ cc.username = <<"a">>
    /\ cl.sent = << <<"a", "\n">> >>
    /\ cl.status = "Cannot send username: Login already complete."


\* Goroutine g is in Disconnect and has found the client connected.
C40_Inside(g) == cl.pc[g] \in {"disc_status", "disc_wait"}

\* C40: Disconnect called on a connected client always terminates: it
\* closes the shutdown signal at most once, leaves IsConnected false and
\* finally emits the status "Disconnected."; whether it is called from
\* several goroutines at once, from the reader's own cleanup on the loss of
\* the connection, or with a status callback that asks IsLoggedIn.
C40_DisconnectEnds ==
    /\ [](cl.closes <= 1)
    /\ \A g \in Goroutines :
          C40_Inside(g)
              ~> (~C40_Inside(g) /\ ~IsConnected /\ cl.status = "Disconnected.")

=============================================================================
